---- MODULE Spec2Model ----
(***************************************************************************)
(* A model of qstorm: the metrics engine (qstorm-core/src/metrics.rs), the *)
(* burst runner (qstorm-core/src/runner.rs), the application state and its *)
(* rolling history (qstorm-cli/src/app.rs) and the interactive control     *)
(* loop (qstorm-cli/src/tui.rs).                                           *)
(*                                                                         *)
(* The module holds several specifications over one set of variables:      *)
(*   BurstSpec    one BenchmarkRunner executing run_burst, call by call    *)
(*   HistorySpec  MetricsHistory::push under every capacity                *)
(*   AppSpec      the App's synchronous methods called in any order        *)
(*   LoopSpec     tui::run, tick by tick, with its background burst task   *)
(*   FairBurstSpec BurstSpec with every backend call returning             *)
(*   FairLoopSpec LoopSpec with the control loop's own steps weakly fair   *)
(*   TimedLoopSpec FairLoopSpec with the burst interval elapsing            *)
(* A specification parks the variables of the components it does not use.  *)
(***************************************************************************)
EXTENDS Integers, Sequences, FiniteSets, TLC

\* ------------------------------------------------------------------------
\* Bounds of the model
\* ------------------------------------------------------------------------
MaxBurstSize == 3
MaxConcurrency == 2
MaxQueries == 2
MaxSamples == 3
MaxFinished == 1
MaxHistory == 4
MaxPushes == 6
MaxResults == 2
MaxInput == 2
MaxBursts == 2

\* ------------------------------------------------------------------------
\* State
\* ------------------------------------------------------------------------
VARIABLES
  \* BenchmarkRunner (runner.rs) and its Metrics (metrics.rs)
  config,      \* BenchmarkConfig: mode, burst_size, concurrency
  nqueries,    \* self.queries.len()
  provider,    \* the SearchProvider: whether it overrides hybrid_search
  metrics,     \* self.metrics
  rpc,         \* where run_burst stands: "idle", "collect", "returned"
  futures,     \* the FuturesUnordered: per pushed future, its query and stage
  permits,     \* permits the semaphore has available
  results,     \* the collected (result, latency, query) tuples
  ret,         \* what run_burst returned: None until it returns
  mret,        \* what the last finish_burst call returned (MetricsSpec)
  \* App (app.rs)
  app,         \* the App: state, view, runner, embedder, last_sample,
               \* results_scroll, query_input, editing, history
  streak,      \* app.state along the current run of consecutive toggle_pause calls
  pushed,      \* how many MetricsHistory::push calls were made (HistorySpec)
  \* tui::run (tui.rs)
  pc,          \* where the control loop stands
  burst_rx,    \* the loop's Option<oneshot::Receiver>: TRUE when Some
  chan,        \* the one-shot channel of the burst in flight
  task,        \* the spawned burst task
  dispatched,  \* how many bursts the loop has dispatched
  quit,        \* how the quit path's wait for the burst ended
  disc,        \* calls of App::disconnect and of the provider's disconnect
  dropped,     \* the runner was dropped (its owner ended without handing it on)
  exit,        \* what tui::run returned
  \* recall_at_k (metrics.rs)
  returned,    \* the ids the backend returned
  expected,    \* the ids the query expects
  at_k,        \* the cut-off k
  recall_ret,  \* what recall_at_k returned: None until it is called
  \* BenchmarkRunner::warmup, run_sample_query, run_custom_query (runner.rs)
  warmup_iterations, \* self.config.warmup_iterations
  op,          \* the method in progress: its name, stage, loop index and
               \* the backend calls it has in flight
  calls,       \* the backend calls the method has issued, in order
  opret,       \* what the method returned: None until it returns
  \* main, run_headless, run_tui (main.rs)
  cli,         \* the parsed command line: headless, bursts, output
  qfile,       \* the queries file: whether it exists, parses, and its queries
  mpc,         \* where main stands
  events,      \* provider calls, bursts and printed lines, in order
  done,        \* bursts run_headless has completed
  embedded,    \* embed_queries returned Ok
  status       \* what main returned: "none" until it returns

runnerVars == <<config, nqueries, provider, metrics, rpc, futures, permits, results, ret>>
appVars == <<app, streak, pushed>>
loopVars == <<pc, burst_rx, chan, task, dispatched, quit, disc, dropped, exit>>
recallVars == <<returned, expected, at_k, recall_ret>>
opsVars == <<warmup_iterations, op, calls, opret>>
mainVars == <<cli, qfile, mpc, events, done, embedded, status>>
extVars == <<recallVars, opsVars, mainVars>>
vars == <<runnerVars, mret, appVars, loopVars, extVars>>

\* Latencies a backend call may take, in microseconds.
Latencies == {1, 2}

\* Option<T>: None is the empty sequence, Some(x) the one-element sequence.
None == <<>>
Some(x) == <<x>>
IsSome(o) == Len(o) = 1
Unwrap(o) == o[1]

\* ------------------------------------------------------------------------
\* Metrics engine (metrics.rs)
\* ------------------------------------------------------------------------

\* Histogram::new_with_bounds(1, 60_000_000, 3)
HistogramHigh == 60000000

\* slice::sort_unstable on u64: ascending order, by insertion.
RECURSIVE InsertSorted(_, _)
InsertSorted(x, s) ==
  IF s = <<>> THEN <<x>>
  ELSE IF x <= Head(s) THEN <<x>> \o s
       ELSE <<Head(s)>> \o InsertSorted(x, Tail(s))

\* A sort that leaves the sample in recording order.
sort_unstable_noop(s) == s

RECURSIVE sort_unstable(_)
sort_unstable(s) ==
  IF s = <<>> THEN <<>> ELSE InsertSorted(Head(s), sort_unstable(Tail(s)))

RECURSIVE SumSeq(_)
SumSeq(s) == IF s = <<>> THEN 0 ELSE Head(s) + SumSeq(Tail(s))

\* A percentile index that truncates instead of rounding.
percentile_idx_floor(p, len) == (p * (len - 1)) \div 100

\* ((p / 100.0) * (len - 1) as f64).round() as usize: f64::round rounds half
\* away from zero; for len < 20000 and p in {50, 90, 95, 99} the f64 product
\* rounds to the same index as the exact rational p * (len - 1) / 100.
percentile_idx(p, len) == (2 * p * (len - 1) + 100) \div 200

\* The closure `percentile` of compute_latency_metrics, over the sorted sample.
percentile(sorted, p) == sorted[percentile_idx(p, Len(sorted)) + 1]

\* Latency metrics whose min_us is the first sample recorded, not the first
\* of the sorted sample.
compute_latency_metrics_first_recorded(latencies_us) ==
  IF latencies_us = <<>>
  THEN [min_us |-> 0, max_us |-> 0, mean_num |-> 0, mean_den |-> 1,
        p50_us |-> 0, p90_us |-> 0, p95_us |-> 0, p99_us |-> 0]
  ELSE LET sorted == sort_unstable(latencies_us)
       IN [min_us |-> latencies_us[1],
           max_us |-> sorted[Len(sorted)],
           mean_num |-> SumSeq(sorted), mean_den |-> Len(sorted),
           p50_us |-> percentile(sorted, 50),
           p90_us |-> percentile(sorted, 90),
           p95_us |-> percentile(sorted, 95),
           p99_us |-> percentile(sorted, 99)]

\* compute_latency_metrics: mean_us is kept as the exact quotient sum / n.
compute_latency_metrics(latencies_us) ==
  IF latencies_us = <<>>
  THEN [min_us |-> 0, max_us |-> 0, mean_num |-> 0, mean_den |-> 1,
        p50_us |-> 0, p90_us |-> 0, p95_us |-> 0, p99_us |-> 0]
  ELSE LET sorted == sort_unstable(latencies_us)
       IN [min_us |-> sorted[1],
           max_us |-> sorted[Len(sorted)],
           mean_num |-> SumSeq(sorted), mean_den |-> Len(sorted),
           p50_us |-> percentile(sorted, 50),
           p90_us |-> percentile(sorted, 90),
           p95_us |-> percentile(sorted, 95),
           p99_us |-> percentile(sorted, 99)]

\* Metrics::new: the histogram is modelled by the number of samples it holds.
MetricsNew == [latency_histogram |-> 0, bursts |-> <<>>, current_burst |-> None]

\* Histogram::record: a value above the trackable range is rejected and the
\* caller ignores the error (let _ = ...).
HistogramRecord(h, v) == IF v <= HistogramHigh THEN h + 1 ELSE h

\* Metrics::start_burst
start_burst(m) ==
  [m EXCEPT !.current_burst =
     Some([latencies_us |-> <<>>, successes |-> 0, failures |-> 0, recalls |-> <<>>])]

\* A record_success that feeds the run-wide histogram outside the
\* `if let Some(burst)`.
record_success_histogram_always(m, latency_us, recall) ==
  LET h == HistogramRecord(m.latency_histogram, latency_us)
  IN IF IsSome(m.current_burst)
     THEN LET b == Unwrap(m.current_burst)
          IN [m EXCEPT
                !.current_burst = Some([b EXCEPT
                    !.latencies_us = Append(b.latencies_us, latency_us),
                    !.successes = b.successes + 1,
                    !.recalls = IF IsSome(recall) THEN Append(b.recalls, Unwrap(recall))
                                ELSE b.recalls]),
                !.latency_histogram = h]
     ELSE [m EXCEPT !.latency_histogram = h]

\* Metrics::record_success(latency, recall)
record_success(m, latency_us, recall) ==
  IF IsSome(m.current_burst)
  THEN LET b == Unwrap(m.current_burst)
       IN [m EXCEPT
             !.current_burst = Some([b EXCEPT
                 !.latencies_us = Append(b.latencies_us, latency_us),
                 !.successes = b.successes + 1,
                 !.recalls = IF IsSome(recall) THEN Append(b.recalls, Unwrap(recall))
                             ELSE b.recalls]),
             !.latency_histogram = HistogramRecord(m.latency_histogram, latency_us)]
  ELSE m

\* record_failure without `burst.failures += 1`.
record_failure_uncounted(m, latency_us) ==
  IF IsSome(m.current_burst)
  THEN LET b == Unwrap(m.current_burst)
       IN [m EXCEPT
             !.current_burst = Some([b EXCEPT
                 !.latencies_us = Append(b.latencies_us, latency_us)]),
             !.latency_histogram = HistogramRecord(m.latency_histogram, latency_us)]
  ELSE m

\* Metrics::record_failure(latency)
record_failure(m, latency_us) ==
  IF IsSome(m.current_burst)
  THEN LET b == Unwrap(m.current_burst)
       IN [m EXCEPT
             !.current_burst = Some([b EXCEPT
                 !.latencies_us = Append(b.latencies_us, latency_us),
                 !.failures = b.failures + 1]),
             !.latency_histogram = HistogramRecord(m.latency_histogram, latency_us)]
  ELSE m

\* The BurstMetrics that finish_burst builds from a BurstState. timestamp,
\* duration_ms and qps come from the clock and are left out; recall_at_k is the
\* mean of the recalls, kept as the exact quotient.
BurstMetricsOf(b) ==
  [query_count |-> b.successes + b.failures,
   success_count |-> b.successes,
   failure_count |-> b.failures,
   latency |-> compute_latency_metrics(b.latencies_us),
   recall_at_k |-> IF b.recalls = <<>> THEN None
                   ELSE Some([num |-> SumSeq(b.recalls), den |-> Len(b.recalls)])]

\* Metrics::finish_burst: the engine afterwards and the Option it returns.
finish_burst(m) ==
  IF IsSome(m.current_burst)
  THEN LET bm == BurstMetricsOf(Unwrap(m.current_burst))
       IN [m |-> [m EXCEPT !.current_burst = None, !.bursts = Append(m.bursts, bm)],
           ret |-> Some(bm)]
  ELSE [m |-> m, ret |-> None]

\* ------------------------------------------------------------------------
\* Burst runner (runner.rs)
\* ------------------------------------------------------------------------
SearchModes == {"Vector", "Hybrid"}

\* A semaphore sized by the burst instead of the concurrency ceiling.
SemaphoreNewPerBurst(cfg) == cfg.burst_size

\* Semaphore::new(self.config.concurrency)
SemaphoreNew(cfg) == cfg.concurrency

\* Query indices that cycle from the second query on.
query_indices_from_one(cfg, len) == [i \in 1..cfg.burst_size |-> i % len]

\* (0..burst_size).map(|i| i % self.queries.len()): the i-th pushed future
\* (i from 1 here) carries query index (i - 1) % len.
query_indices(cfg, len) == [i \in 1..cfg.burst_size |-> (i - 1) % len]

\* What a backend call may return: SearchProvider::hybrid_search's default
\* body returns Unsupported; an implemented call succeeds or fails.
CallOutcomes(cfg, prov) ==
  IF cfg.mode = "Hybrid" /\ ~prov.hybrid_impl THEN {"Unsupported"}
  ELSE {"Ok", "QueryExecution"}

InFlight == {i \in DOMAIN futures : futures[i].st = "inflight"}
AllDone == \A i \in DOMAIN futures : futures[i].st = "done"

\* A record loop that hands a recall of 100 percent to record_success.
RECURSIVE record_results_with_recall(_, _)
record_results_with_recall(m, rs) ==
  IF rs = <<>> THEN m
  ELSE record_results_with_recall(
         IF Head(rs).outcome = "Ok"
         THEN record_success(m, Head(rs).latency_us, Some(100))
         ELSE record_failure(m, Head(rs).latency_us),
         Tail(rs))

\* Phase 3 of run_burst: every collected tuple goes to record_success or
\* record_failure, in collection order.
RECURSIVE record_results(_, _)
record_results(m, rs) ==
  IF rs = <<>> THEN m
  ELSE record_results(
         IF Head(rs).outcome = "Ok"
         THEN record_success(m, Head(rs).latency_us, None)
         ELSE record_failure(m, Head(rs).latency_us),
         Tail(rs))

\* A tail that propagates the first failed call (`result?`) instead of
\* recording it: the burst is left unfinished and the error returned.
run_burst_tail_propagating(m, rs) ==
  IF \E k \in DOMAIN rs : rs[k].outcome # "Ok"
  THEN [m |-> m, ret |-> [ok |-> FALSE, err |-> "QueryExecution"]]
  ELSE LET fin == finish_burst(record_results(m, rs))
       IN [m |-> fin.m, ret |-> [ok |-> TRUE, metrics |-> Unwrap(fin.ret)]]

\* The tail of run_burst, from the end of the collection loop to the return:
\* the engine afterwards and the Result returned.
run_burst_tail(m, rs) ==
  LET fin == finish_burst(record_results(m, rs))
  IN [m |-> fin.m,
      ret |-> IF IsSome(fin.ret) THEN [ok |-> TRUE, metrics |-> Unwrap(fin.ret)]
              ELSE [ok |-> FALSE, err |-> "Config"]]

RunnerInit ==
  /\ config \in [mode : SearchModes, burst_size : 0..MaxBurstSize,
                 concurrency : 0..MaxConcurrency]
  /\ nqueries \in 0..MaxQueries
  /\ provider \in [hybrid_impl : BOOLEAN]
  /\ metrics = MetricsNew
  /\ rpc = "idle"
  /\ futures = <<>>
  /\ permits = 0
  /\ results = <<>>
  /\ ret = None

\* A run_burst that starts the burst before it checks for queries.
RunBurstBeginStartsFirst ==
  /\ rpc = "idle"
  /\ metrics' = start_burst(metrics)
  /\ IF nqueries = 0
     THEN /\ ret' = Some([ok |-> FALSE, err |-> "Config"])
          /\ rpc' = "returned"
          /\ UNCHANGED <<futures, permits, results>>
     ELSE /\ permits' = SemaphoreNew(config)
          /\ futures' = [i \in 1..config.burst_size |->
                           [query |-> query_indices(config, nqueries)[i], st |-> "pending"]]
          /\ results' = <<>>
          /\ rpc' = "collect"
          /\ UNCHANGED ret
  /\ UNCHANGED <<config, nqueries, provider, mret, appVars, loopVars>>
  /\ UNCHANGED extVars

\* run_burst up to its first suspension: the empty-queries check, the
\* semaphore, start_burst and the push of every future (none polled yet).
RunBurstBegin ==
  /\ rpc = "idle"
  /\ IF nqueries = 0
     THEN /\ ret' = Some([ok |-> FALSE, err |-> "Config"])
          /\ rpc' = "returned"
          /\ UNCHANGED <<metrics, futures, permits, results>>
     ELSE /\ permits' = SemaphoreNew(config)
          /\ metrics' = start_burst(metrics)
          /\ futures' = [i \in 1..config.burst_size |->
                           [query |-> query_indices(config, nqueries)[i], st |-> "pending"]]
          /\ results' = <<>>
          /\ rpc' = "collect"
          /\ UNCHANGED ret
  /\ UNCHANGED <<config, nqueries, provider, mret, appVars, loopVars>>
  /\ UNCHANGED extVars

\* A pushed future is polled, takes a permit (acquire_owned) and issues its
\* backend call.
IssueCall(i) ==
  /\ rpc = "collect"
  /\ futures[i].st = "pending"
  /\ permits > 0
  /\ permits' = permits - 1
  /\ futures' = [futures EXCEPT ![i].st = "inflight"]
  /\ UNCHANGED <<config, nqueries, provider, metrics, rpc, results, ret>>
  /\ UNCHANGED <<mret, appVars, loopVars>>
  /\ UNCHANGED extVars

\* A collection loop that records each outcome as soon as its call returns,
\* while other calls are still in flight.
CompleteCallRecording(i, outcome, latency_us) ==
  /\ rpc = "collect"
  /\ futures[i].st = "inflight"
  /\ outcome \in CallOutcomes(config, provider)
  /\ permits' = permits + 1
  /\ futures' = [futures EXCEPT ![i].st = "done"]
  /\ results' = Append(results, [outcome |-> outcome, latency_us |-> latency_us,
                                 query |-> futures[i].query])
  /\ metrics' = IF outcome = "Ok" THEN record_success(metrics, latency_us, None)
                ELSE record_failure(metrics, latency_us)
  /\ UNCHANGED <<config, nqueries, provider, rpc, ret>>
  /\ UNCHANGED <<mret, appVars, loopVars>>
  /\ UNCHANGED extVars

\* A backend call returns: the future yields its tuple, its permit is dropped
\* and the collection loop pushes the tuple.
CompleteCall(i, outcome, latency_us) ==
  /\ rpc = "collect"
  /\ futures[i].st = "inflight"
  /\ outcome \in CallOutcomes(config, provider)
  /\ permits' = permits + 1
  /\ futures' = [futures EXCEPT ![i].st = "done"]
  /\ results' = Append(results, [outcome |-> outcome, latency_us |-> latency_us,
                                 query |-> futures[i].query])
  /\ UNCHANGED <<config, nqueries, provider, metrics, rpc, ret>>
  /\ UNCHANGED <<mret, appVars, loopVars>>
  /\ UNCHANGED extVars

\* futures.next() yields None: phase 3 records, finish_burst, return.
RunBurstFinish ==
  /\ rpc = "collect"
  /\ AllDone
  /\ LET t == run_burst_tail(metrics, results)
     IN /\ metrics' = t.m
        /\ ret' = Some(t.ret)
  /\ rpc' = "returned"
  /\ UNCHANGED <<config, nqueries, provider, futures, permits, results>>
  /\ UNCHANGED <<mret, appVars, loopVars>>
  /\ UNCHANGED extVars

RunnerNext ==
  \/ RunBurstBegin
  \/ \E i \in DOMAIN futures : IssueCall(i)
  \/ \E i \in DOMAIN futures : \E o \in {"Ok", "QueryExecution", "Unsupported"} :
       \E l \in Latencies : CompleteCall(i, o, l)
  \/ RunBurstFinish

\* ------------------------------------------------------------------------
\* Metrics engine driven call by call (MetricsSpec)
\* ------------------------------------------------------------------------

\* Latencies (one of them beyond the histogram's range: a call that took over
\* a minute) and recall values (in percent) handed to the engine's methods.
SampleLatencies == {1, 2, HistogramHigh + 1}
SampleRecalls == {None, Some(50)}

\* Samples recorded so far over the whole run.
TotalRecorded(m) ==
  SumSeq([k \in DOMAIN m.bursts |-> m.bursts[k].query_count])
    + (IF IsSome(m.current_burst)
       THEN Unwrap(m.current_burst).successes + Unwrap(m.current_burst).failures
       ELSE 0)

\* Metrics::total_queries
total_queries(m) == SumSeq([k \in DOMAIN m.bursts |-> m.bursts[k].query_count])

MStartBurst ==
  /\ metrics' = start_burst(metrics)
  /\ UNCHANGED <<config, nqueries, provider, rpc, futures, permits, results, ret>>
  /\ UNCHANGED <<mret, appVars, loopVars>>
  /\ UNCHANGED extVars

MRecordSuccess(latency_us, recall) ==
  /\ TotalRecorded(metrics) < MaxSamples
  /\ metrics.latency_histogram < MaxSamples
  /\ metrics' = record_success(metrics, latency_us, recall)
  /\ UNCHANGED <<config, nqueries, provider, rpc, futures, permits, results, ret>>
  /\ UNCHANGED <<mret, appVars, loopVars>>
  /\ UNCHANGED extVars

MRecordFailure(latency_us) ==
  /\ TotalRecorded(metrics) < MaxSamples
  /\ metrics.latency_histogram < MaxSamples
  /\ metrics' = record_failure(metrics, latency_us)
  /\ UNCHANGED <<config, nqueries, provider, rpc, futures, permits, results, ret>>
  /\ UNCHANGED <<mret, appVars, loopVars>>
  /\ UNCHANGED extVars

MFinishBurst ==
  /\ IsSome(metrics.current_burst) => Len(metrics.bursts) < MaxFinished
  /\ LET fin == finish_burst(metrics)
     IN /\ metrics' = fin.m
        /\ mret' = fin.ret
  /\ UNCHANGED <<config, nqueries, provider, rpc, futures, permits, results, ret>>
  /\ UNCHANGED <<appVars, loopVars>>
  /\ UNCHANGED extVars

\* ------------------------------------------------------------------------
\* App and MetricsHistory (app.rs)
\* ------------------------------------------------------------------------
AppStates == {"Idle", "Connecting", "Warming", "Running", "Paused", "Error"}
Views == {"Dashboard", "Results"}

\* MetricsHistory::default: max_history
DefaultMaxHistory == 100

\* App::new. status_message only feeds the display and is left out; runner
\* and embedder are kept as "is Some"; a SampleResult by its number of results.
AppNew ==
  [state |-> "Idle", view |-> "Dashboard", runner |-> FALSE, embedder |-> FALSE,
   last_sample |-> None, results_scroll |-> 0, query_input |-> <<>>,
   editing |-> FALSE,
   history |-> [bursts |-> <<>>, max_history |-> DefaultMaxHistory]]

\* A push that evicts the newest entry instead of the oldest.
push_evict_newest(h, m) ==
  IF Len(h.bursts) + 1 > h.max_history THEN h
  ELSE [h EXCEPT !.bursts = Append(h.bursts, m)]

\* A push that inserts at the front and drops the back when over max_history.
push_prepend(h, m) ==
  LET pushed_on == <<m>> \o h.bursts
  IN IF Len(pushed_on) > h.max_history
     THEN [h EXCEPT !.bursts = SubSeq(pushed_on, 1, Len(pushed_on) - 1)]
     ELSE [h EXCEPT !.bursts = pushed_on]

\* MetricsHistory::push: push, then remove(0) when over max_history.
push(h, m) ==
  LET pushed_on == Append(h.bursts, m)
  IN IF Len(pushed_on) > h.max_history
     THEN [h EXCEPT !.bursts = Tail(pushed_on)]
     ELSE [h EXCEPT !.bursts = pushed_on]

\* MetricsHistory::recall_series: (index, recall in percent) of the retained
\* bursts that carry a recall, in order; the recall stays the exact quotient.
RECURSIVE recall_points(_, _)
recall_points(bs, i) ==
  IF i > Len(bs) THEN <<>>
  ELSE (IF IsSome(bs[i].metrics.recall_at_k)
        THEN <<[x |-> i - 1, recall |-> Unwrap(bs[i].metrics.recall_at_k)]>>
        ELSE <<>>) \o recall_points(bs, i + 1)

recall_series(h) == recall_points(h.bursts, 1)

\* MetricsHistory::latest
latest(h) == IF h.bursts = <<>> THEN None ELSE Some(h.bursts[Len(h.bursts)])

\* A take_runner that leaves the runner in the App (a copy handed out).
take_runner_keep(a) == a

\* App::take_runner (the App afterwards), put_runner, has_runner
take_runner(a) == [a EXCEPT !.runner = FALSE]
put_runner(a) == [a EXCEPT !.runner = TRUE]
has_runner(a) == a.runner

\* A toggle_pause that resumes to Running, and pauses from every other state.
toggle_pause_any(a) ==
  [a EXCEPT !.state = IF a.state = "Paused" THEN "Running" ELSE "Paused"]

\* App::toggle_pause
toggle_pause(a) ==
  [a EXCEPT !.state = CASE a.state \in {"Running", "Idle"} -> "Paused"
                        [] a.state = "Paused" -> "Idle"
                        [] OTHER -> a.state]

\* App::toggle_view
toggle_view(a) ==
  [a EXCEPT !.view = IF a.view = "Dashboard" THEN "Results" ELSE "Dashboard"]

\* App::start_editing, App::cancel_editing
start_editing(a) == [a EXCEPT !.editing = TRUE, !.query_input = <<>>]
cancel_editing(a) == [a EXCEPT !.editing = FALSE]

\* isize::clamp
clamp(x, lo, hi) == IF x < lo THEN lo ELSE IF x > hi THEN hi ELSE x

\* usize::saturating_sub(1)
saturating_pred(n) == IF n = 0 THEN 0 ELSE n - 1

\* App::scroll_results
scroll_results(a, delta) ==
  LET max == IF IsSome(a.last_sample)
             THEN saturating_pred(Unwrap(a.last_sample).nresults) ELSE 0
  IN [a EXCEPT !.results_scroll = clamp(a.results_scroll + delta, 0, max)]

\* A sample stored without `self.results_scroll = 0`.
store_sample_keep_scroll(a, n) ==
  [a EXCEPT !.last_sample = Some([nresults |-> n])]

\* The end of App::run_sample and of App::submit_query once the runner's
\* query has returned Ok with n results.
store_sample(a, n) ==
  [a EXCEPT !.last_sample = Some([nresults |-> n]), !.results_scroll = 0]

\* str::trim over the characters " " and "a".
RECURSIVE trim_start(_)
trim_start(s) ==
  IF s # <<>> /\ Head(s) = " " THEN trim_start(Tail(s)) ELSE s

RECURSIVE trim_end(_)
trim_end(s) ==
  IF s # <<>> /\ s[Len(s)] = " " THEN trim_end(SubSeq(s, 1, Len(s) - 1)) ELSE s

trim(s) == trim_end(trim_start(s))

\* String::pop
pop(s) == IF s = <<>> THEN s ELSE SubSeq(s, 1, Len(s) - 1)

\* A submit_query that leaves editing mode when the backend query fails.
submit_query_cancel_on_error(a, embed, ok, n) ==
  IF trim(a.query_input) = <<>>
  THEN [a |-> [a EXCEPT !.editing = FALSE], ret |-> "Ok",
        embedded |-> FALSE, queried |-> FALSE]
  ELSE IF ~a.embedder
  THEN [a |-> a, ret |-> "Err", embedded |-> FALSE, queried |-> FALSE]
  ELSE IF embed # "ok"
  THEN [a |-> a, ret |-> "Err", embedded |-> TRUE, queried |-> FALSE]
  ELSE IF ~has_runner(a)
  THEN [a |-> a, ret |-> "Err", embedded |-> TRUE, queried |-> FALSE]
  ELSE IF ~ok
  THEN [a |-> [a EXCEPT !.editing = FALSE], ret |-> "Err",
        embedded |-> TRUE, queried |-> TRUE]
  ELSE [a |-> [store_sample(a, n) EXCEPT !.editing = FALSE], ret |-> "Ok",
        embedded |-> TRUE, queried |-> TRUE]

\* App::submit_query as a whole: the App afterwards, the Result returned, and
\* whether embed_queries and run_custom_query were called. `embed` is what
\* embed_queries returns (an error, no embedding, one embedding), `ok` and `n`
\* what run_custom_query returns. Each `?` returns before anything is stored.
submit_query(a, embed, ok, n) ==
  IF trim(a.query_input) = <<>>
  THEN [a |-> [a EXCEPT !.editing = FALSE], ret |-> "Ok",
        embedded |-> FALSE, queried |-> FALSE]
  ELSE IF ~a.embedder
  THEN [a |-> a, ret |-> "Err", embedded |-> FALSE, queried |-> FALSE]
  ELSE IF embed # "ok"
  THEN [a |-> a, ret |-> "Err", embedded |-> TRUE, queried |-> FALSE]
  ELSE IF ~has_runner(a)
  THEN [a |-> a, ret |-> "Err", embedded |-> TRUE, queried |-> FALSE]
  ELSE IF ~ok
  THEN [a |-> a, ret |-> "Err", embedded |-> TRUE, queried |-> TRUE]
  ELSE [a |-> [store_sample(a, n) EXCEPT !.editing = FALSE], ret |-> "Ok",
        embedded |-> TRUE, queried |-> TRUE]

\* A BurstMetrics as the history holds it: `seq` tells the pushes apart, it is
\* no field of the program.
Entry(n, bm) == [seq |-> n, metrics |-> bm]

\* BurstMetrics values handed to push.
PushableBursts ==
  {BurstMetricsOf([latencies_us |-> <<1>>, successes |-> 1, failures |-> 0,
                   recalls |-> <<>>]),
   BurstMetricsOf([latencies_us |-> <<2>>, successes |-> 0, failures |-> 1,
                   recalls |-> <<>>])}

\* --- MetricsHistory under every capacity (HistorySpec) ---
HPush(bm) ==
  /\ pushed < MaxPushes
  /\ pushed' = pushed + 1
  /\ app' = [app EXCEPT !.history = push(app.history, Entry(pushed + 1, bm))]
  /\ UNCHANGED <<runnerVars, mret, streak, loopVars>>
  /\ UNCHANGED extVars

\* --- The App's synchronous methods in any order (AppSpec) ---
ATogglePause ==
  /\ app' = toggle_pause(app)
  /\ streak' = IF streak = <<>> THEN <<app.state, app'.state>>
               ELSE IF Len(streak) < 3 THEN Append(streak, app'.state)
               ELSE Append(Tail(streak), app'.state)
  /\ UNCHANGED <<runnerVars, mret, pushed, loopVars>>
  /\ UNCHANGED extVars

AToggleView ==
  /\ app' = toggle_view(app)
  /\ streak' = <<>>
  /\ UNCHANGED <<runnerVars, mret, pushed, loopVars>>
  /\ UNCHANGED extVars

AStartEditing ==
  /\ app' = start_editing(app)
  /\ streak' = <<>>
  /\ UNCHANGED <<runnerVars, mret, pushed, loopVars>>
  /\ UNCHANGED extVars

ACancelEditing ==
  /\ app' = cancel_editing(app)
  /\ streak' = <<>>
  /\ UNCHANGED <<runnerVars, mret, pushed, loopVars>>
  /\ UNCHANGED extVars

AScrollResults(delta) ==
  /\ app' = scroll_results(app, delta)
  /\ streak' = <<>>
  /\ UNCHANGED <<runnerVars, mret, pushed, loopVars>>
  /\ UNCHANGED extVars

ATakeRunner ==
  /\ app' = take_runner(app)
  /\ streak' = <<>>
  /\ UNCHANGED <<runnerVars, mret, pushed, loopVars>>
  /\ UNCHANGED extVars

APutRunner ==
  /\ app' = put_runner(app)
  /\ streak' = <<>>
  /\ UNCHANGED <<runnerVars, mret, pushed, loopVars>>
  /\ UNCHANGED extVars

\* App::run_sample as a whole: without a runner, or when the query fails, it
\* returns an error and changes nothing; otherwise it stores the sample.
ARunSample(ok, n) ==
  /\ app' = IF has_runner(app) /\ ok THEN store_sample(app, n) ELSE app
  /\ streak' = <<>>
  /\ UNCHANGED <<runnerVars, mret, pushed, loopVars>>
  /\ UNCHANGED extVars

\* app.query_input.push(c): the input is a public field the key handler
\* writes to.
ATypeChar(c) ==
  /\ Len(app.query_input) < MaxInput
  /\ app' = [app EXCEPT !.query_input = Append(app.query_input, c)]
  /\ streak' = <<>>
  /\ UNCHANGED <<runnerVars, mret, pushed, loopVars>>
  /\ UNCHANGED extVars

\* App::submit_query as a whole; opret keeps what it returned and which calls
\* it made.
ASubmitQuery(embed, ok, n) ==
  /\ ~ok => n = 0
  /\ LET r == submit_query(app, embed, ok, n)
     IN /\ app' = r.a
        /\ opret' = Some([ret |-> r.ret, embedded |-> r.embedded, queried |-> r.queried])
  /\ streak' = <<>>
  /\ UNCHANGED <<runnerVars, mret, pushed, loopVars>>
  /\ UNCHANGED <<warmup_iterations, op, calls>>
  /\ UNCHANGED <<recallVars, mainVars>>

\* ------------------------------------------------------------------------
\* The interactive control loop (tui.rs) and its background burst task
\* ------------------------------------------------------------------------

\* The BurstMetrics a dispatched burst reports; the loop never looks inside.
LoopBurst ==
  BurstMetricsOf([latencies_us |-> <<1>>, successes |-> 1, failures |-> 0,
                  recalls |-> <<>>])

\* Characters typed into the query input.
Chars == {" ", "a"}

\* The message of the one-shot channel is (runner, result): the channel holds
\* the runner from the send until the receive. The task's closure holds the
\* runner while the task runs.
ChanHoldsRunner == chan \in {"sent_ok", "sent_err"}
TaskHoldsRunner == task = "running"

\* App::connect when the provider is created and connects / when it fails
\* (the `?` returns before the runner is stored and the state is reset).
connect_ok(a) == [a EXCEPT !.runner = TRUE, !.state = "Idle"]
connect_err(a) == [a EXCEPT !.state = "Connecting"]

\* App::warmup: Warming while the runner warms up (which always returns Ok),
\* Idle afterwards.
warmup_done(a) == [a EXCEPT !.state = "Idle"]

\* An arm for a failed burst that keeps a pause in force.
try_recv_arm_keep_paused(a, c, entry) ==
  CASE c = "sent_ok" ->
         [put_runner(a) EXCEPT !.history = push(a.history, entry),
                               !.state = IF a.state # "Paused" THEN "Idle" ELSE a.state]
    [] c = "sent_err" ->
         [put_runner(a) EXCEPT !.state = IF a.state # "Paused" THEN "Error" ELSE a.state]
    [] c = "tx_dropped" ->
         [a EXCEPT !.state = IF a.state # "Paused" THEN "Error" ELSE a.state]
    [] OTHER -> a

\* An arm that drops the runner of the message instead of putting it back.
try_recv_arm_lose_runner(a, c, entry) ==
  CASE c = "sent_ok" ->
         [a EXCEPT !.history = push(a.history, entry),
                   !.state = IF a.state # "Paused" THEN "Idle" ELSE a.state]
    [] c = "sent_err" -> [a EXCEPT !.state = "Error"]
    [] c = "tx_dropped" -> [a EXCEPT !.state = "Error"]
    [] OTHER -> a

\* An arm for a successful burst that leaves the state as it is.
try_recv_arm_keep_state(a, c, entry) ==
  CASE c = "sent_ok" -> [put_runner(a) EXCEPT !.history = push(a.history, entry)]
    [] c = "sent_err" -> [put_runner(a) EXCEPT !.state = "Error"]
    [] c = "tx_dropped" -> [a EXCEPT !.state = "Error"]
    [] OTHER -> a

\* An arm for a successful burst that sets Idle over a pause.
try_recv_arm_always_idle(a, c, entry) ==
  CASE c = "sent_ok" ->
         [put_runner(a) EXCEPT !.history = push(a.history, entry), !.state = "Idle"]
    [] c = "sent_err" -> [put_runner(a) EXCEPT !.state = "Error"]
    [] c = "tx_dropped" -> [a EXCEPT !.state = "Error"]
    [] OTHER -> a

\* The match on rx.try_recv(): the App after each arm. c is the channel's
\* state: a message with Ok or Err, Empty ("open"), or Closed ("tx_dropped").
try_recv_arm(a, c, entry) ==
  CASE c = "sent_ok" ->
         [put_runner(a) EXCEPT !.history = push(a.history, entry),
                               !.state = IF a.state # "Paused" THEN "Idle" ELSE a.state]
    [] c = "sent_err" -> [put_runner(a) EXCEPT !.state = "Error"]
    [] c = "tx_dropped" -> [a EXCEPT !.state = "Error"]
    [] OTHER -> a

\* A spawn condition that forgets the pause.
should_spawn_paused_too(a, rx, elapsed) ==
  /\ ~rx
  /\ a.state # "Error"
  /\ has_runner(a)
  /\ elapsed

\* A spawn condition that forgets the Error state.
should_spawn_after_error(a, rx, elapsed) ==
  /\ ~rx
  /\ a.state # "Paused"
  /\ has_runner(a)
  /\ elapsed

\* The condition under which the loop spawns a burst.
should_spawn(a, rx, elapsed) ==
  /\ ~rx
  /\ a.state # "Paused"
  /\ a.state # "Error"
  /\ has_runner(a)
  /\ elapsed

\* --- start of tui::run ---
ConnectOk ==
  /\ pc = "connect"
  /\ app' = connect_ok(app)
  /\ pc' = "warmup"
  /\ UNCHANGED <<runnerVars, mret, streak, pushed>>
  /\ UNCHANGED <<burst_rx, chan, task, dispatched, quit, disc, dropped, exit>>
  /\ UNCHANGED extVars

ConnectErr ==
  /\ pc = "connect"
  /\ app' = connect_err(app)
  /\ pc' = "exited"
  /\ exit' = "err"
  /\ UNCHANGED <<runnerVars, mret, streak, pushed>>
  /\ UNCHANGED <<burst_rx, chan, task, dispatched, quit, disc, dropped>>
  /\ UNCHANGED extVars

Warmup ==
  /\ pc = "warmup"
  /\ app' = warmup_done(app)
  /\ pc' = "poll"
  /\ UNCHANGED <<runnerVars, mret, streak, pushed>>
  /\ UNCHANGED <<burst_rx, chan, task, dispatched, quit, disc, dropped, exit>>
  /\ UNCHANGED extVars

\* --- one pass of the loop: draw and poll the burst, input, spawn ---
Poll ==
  /\ pc = "poll"
  /\ IF burst_rx
     THEN /\ app' = try_recv_arm(app, chan, Entry(dispatched, LoopBurst))
          /\ burst_rx' = (chan = "open")
          /\ chan' = IF chan = "open" THEN chan ELSE "none"
     ELSE UNCHANGED <<app, burst_rx, chan>>
  /\ pc' = "input"
  /\ UNCHANGED <<runnerVars, mret, streak, pushed>>
  /\ UNCHANGED <<task, dispatched, quit, disc, dropped, exit>>
  /\ UNCHANGED extVars

\* event::poll timed out, or the event was no key press handled below.
NoInput ==
  /\ pc = "input"
  /\ pc' = "spawn"
  /\ UNCHANGED <<runnerVars, mret, appVars>>
  /\ UNCHANGED <<burst_rx, chan, task, dispatched, quit, disc, dropped, exit>>
  /\ UNCHANGED extVars

\* 'q' or Esc outside editing: with a burst in flight the receiver is taken
\* and awaited under the two-second timeout.
KeyQuit ==
  /\ pc = "input"
  /\ ~app.editing
  /\ pc' = IF burst_rx THEN "quit_wait" ELSE "disconnect"
  /\ burst_rx' = FALSE
  /\ UNCHANGED <<runnerVars, mret, appVars>>
  /\ UNCHANGED <<chan, task, dispatched, quit, disc, dropped, exit>>
  /\ UNCHANGED extVars

\* A quit path that pushes the received burst's metrics like the poll does.
QuitRecvMerging ==
  /\ pc = "quit_wait"
  /\ chan \in {"sent_ok", "sent_err"}
  /\ app' = IF chan = "sent_ok"
            THEN [put_runner(app) EXCEPT
                    !.history = push(app.history, Entry(dispatched, LoopBurst))]
            ELSE put_runner(app)
  /\ chan' = "none"
  /\ quit' = "received"
  /\ pc' = "disconnect"
  /\ UNCHANGED <<runnerVars, mret, streak, pushed>>
  /\ UNCHANGED <<burst_rx, task, dispatched, disc, dropped, exit>>
  /\ UNCHANGED extVars

\* The awaited receiver yields the message: the runner goes back to the App
\* and the result is discarded.
QuitRecv ==
  /\ pc = "quit_wait"
  /\ chan \in {"sent_ok", "sent_err"}
  /\ app' = put_runner(app)
  /\ chan' = "none"
  /\ quit' = "received"
  /\ pc' = "disconnect"
  /\ UNCHANGED <<runnerVars, mret, streak, pushed>>
  /\ UNCHANGED <<burst_rx, task, dispatched, disc, dropped, exit>>
  /\ UNCHANGED extVars

\* The awaited receiver yields RecvError: the task ended without sending.
QuitClosed ==
  /\ pc = "quit_wait"
  /\ chan = "tx_dropped"
  /\ chan' = "none"
  /\ quit' = "closed"
  /\ pc' = "disconnect"
  /\ UNCHANGED <<runnerVars, mret, appVars>>
  /\ UNCHANGED <<burst_rx, task, dispatched, disc, dropped, exit>>
  /\ UNCHANGED extVars

\* The receiver awaited without a timeout: this step never happens.
QuitWaitForever ==
  /\ pc = "quit_wait"
  /\ FALSE
  /\ UNCHANGED vars

\* The timeout elapses with nothing sent: the receiver is dropped.
QuitTimeout ==
  /\ pc = "quit_wait"
  /\ chan = "open"
  /\ chan' = "rx_dropped"
  /\ quit' = "timeout"
  /\ pc' = "disconnect"
  /\ UNCHANGED <<runnerVars, mret, appVars>>
  /\ UNCHANGED <<burst_rx, task, dispatched, disc, dropped, exit>>
  /\ UNCHANGED extVars

\* A disconnect that calls the provider's disconnect whether or not the App
\* holds the runner.
DisconnectAlways(ok) ==
  /\ pc = "disconnect"
  /\ has_runner(app) \/ ok
  /\ disc' = [app |-> disc.app + 1, provider |-> disc.provider + 1]
  /\ IF ok
     THEN /\ app' = [app EXCEPT !.runner = FALSE, !.state = "Idle"]
          /\ dropped' = (dropped \/ has_runner(app))
          /\ exit' = "ok"
     ELSE /\ exit' = "err"
          /\ UNCHANGED <<app, dropped>>
  /\ pc' = "exited"
  /\ UNCHANGED <<runnerVars, mret, streak, pushed>>
  /\ UNCHANGED <<burst_rx, chan, task, dispatched, quit>>
  /\ UNCHANGED extVars

\* app.disconnect().await? and the return of tui::run. With a runner the
\* provider's disconnect is called; its failure returns through `?` and leaves
\* the App as it was.
Disconnect(ok) ==
  /\ pc = "disconnect"
  /\ has_runner(app) \/ ok
  /\ disc' = [app |-> disc.app + 1,
              provider |-> disc.provider + (IF has_runner(app) THEN 1 ELSE 0)]
  /\ IF ok
     THEN /\ app' = [app EXCEPT !.runner = FALSE, !.state = "Idle"]
          /\ dropped' = (dropped \/ has_runner(app))
          /\ exit' = "ok"
     ELSE /\ exit' = "err"
          /\ UNCHANGED <<app, dropped>>
  /\ pc' = "exited"
  /\ UNCHANGED <<runnerVars, mret, streak, pushed>>
  /\ UNCHANGED <<burst_rx, chan, task, dispatched, quit>>
  /\ UNCHANGED extVars

KeyPause ==
  /\ pc = "input"
  /\ ~app.editing
  /\ app' = toggle_pause(app)
  /\ pc' = "spawn"
  /\ UNCHANGED <<runnerVars, mret, streak, pushed>>
  /\ UNCHANGED <<burst_rx, chan, task, dispatched, quit, disc, dropped, exit>>
  /\ UNCHANGED extVars

\* A Tab that runs a sample whenever it shows the Results view with a runner
\* at hand, cached sample or not.
KeyTabResample ==
  /\ pc = "input"
  /\ ~app.editing
  /\ app' = toggle_view(app)
  /\ pc' = IF app'.view = "Results" /\ has_runner(app')
           THEN "sample_call" ELSE "spawn"
  /\ UNCHANGED <<runnerVars, mret, streak, pushed>>
  /\ UNCHANGED <<burst_rx, chan, task, dispatched, quit, disc, dropped, exit>>
  /\ UNCHANGED extVars

\* Tab: toggle the view, then await run_sample when the Results view has no
\* sample and a runner is at hand.
KeyTab ==
  /\ pc = "input"
  /\ ~app.editing
  /\ app' = toggle_view(app)
  /\ pc' = IF app'.view = "Results" /\ ~IsSome(app'.last_sample) /\ has_runner(app')
           THEN "sample_call" ELSE "spawn"
  /\ UNCHANGED <<runnerVars, mret, streak, pushed>>
  /\ UNCHANGED <<burst_rx, chan, task, dispatched, quit, disc, dropped, exit>>
  /\ UNCHANGED extVars

KeySlash ==
  /\ pc = "input"
  /\ ~app.editing
  /\ app.view = "Results"
  /\ app' = start_editing(app)
  /\ pc' = "spawn"
  /\ UNCHANGED <<runnerVars, mret, streak, pushed>>
  /\ UNCHANGED <<burst_rx, chan, task, dispatched, quit, disc, dropped, exit>>
  /\ UNCHANGED extVars

KeyRefresh ==
  /\ pc = "input"
  /\ ~app.editing
  /\ app.view = "Results"
  /\ pc' = IF has_runner(app) THEN "sample_call" ELSE "spawn"
  /\ UNCHANGED <<runnerVars, mret, appVars>>
  /\ UNCHANGED <<burst_rx, chan, task, dispatched, quit, disc, dropped, exit>>
  /\ UNCHANGED extVars

KeyScroll(delta) ==
  /\ pc = "input"
  /\ ~app.editing
  /\ app.view = "Results"
  /\ app' = scroll_results(app, delta)
  /\ pc' = "spawn"
  /\ UNCHANGED <<runnerVars, mret, streak, pushed>>
  /\ UNCHANGED <<burst_rx, chan, task, dispatched, quit, disc, dropped, exit>>
  /\ UNCHANGED extVars

\* run_sample_query returns to the awaiting run_sample: Config error without
\* a call when no query is loaded, else the backend's answer.
SampleReturn(ok, n) ==
  /\ pc = "sample_call"
  /\ ok => nqueries > 0
  /\ ~ok => n = 0
  /\ app' = IF ok THEN store_sample(app, n) ELSE app
  /\ pc' = "spawn"
  /\ UNCHANGED <<runnerVars, mret, streak, pushed>>
  /\ UNCHANGED <<burst_rx, chan, task, dispatched, quit, disc, dropped, exit>>
  /\ UNCHANGED extVars

\* Enter while editing: submit_query up to its first await.
KeyEnter ==
  /\ pc = "input"
  /\ app.editing
  /\ IF ~has_runner(app) THEN /\ pc' = "spawn"
                              /\ UNCHANGED app
     ELSE IF trim(app.query_input) = <<>>
          THEN /\ app' = [app EXCEPT !.editing = FALSE]
               /\ pc' = "spawn"
          ELSE /\ pc' = IF app.embedder THEN "embed_call" ELSE "spawn"
               /\ UNCHANGED app
  /\ UNCHANGED <<runnerVars, mret, streak, pushed>>
  /\ UNCHANGED <<burst_rx, chan, task, dispatched, quit, disc, dropped, exit>>
  /\ UNCHANGED extVars

\* embed_queries returns: an error, no embedding at all, or one embedding.
EmbedReturn(outcome) ==
  /\ pc = "embed_call"
  /\ pc' = IF outcome = "ok" /\ has_runner(app) THEN "custom_call" ELSE "spawn"
  /\ UNCHANGED <<runnerVars, mret, appVars>>
  /\ UNCHANGED <<burst_rx, chan, task, dispatched, quit, disc, dropped, exit>>
  /\ UNCHANGED extVars

\* run_custom_query returns to the awaiting submit_query.
CustomReturn(ok, n) ==
  /\ pc = "custom_call"
  /\ ~ok => n = 0
  /\ app' = IF ok THEN [store_sample(app, n) EXCEPT !.editing = FALSE] ELSE app
  /\ pc' = "spawn"
  /\ UNCHANGED <<runnerVars, mret, streak, pushed>>
  /\ UNCHANGED <<burst_rx, chan, task, dispatched, quit, disc, dropped, exit>>
  /\ UNCHANGED extVars

KeyEscEditing ==
  /\ pc = "input"
  /\ app.editing
  /\ app' = cancel_editing(app)
  /\ pc' = "spawn"
  /\ UNCHANGED <<runnerVars, mret, streak, pushed>>
  /\ UNCHANGED <<burst_rx, chan, task, dispatched, quit, disc, dropped, exit>>
  /\ UNCHANGED extVars

KeyBackspace ==
  /\ pc = "input"
  /\ app.editing
  /\ app' = [app EXCEPT !.query_input = pop(app.query_input)]
  /\ pc' = "spawn"
  /\ UNCHANGED <<runnerVars, mret, streak, pushed>>
  /\ UNCHANGED <<burst_rx, chan, task, dispatched, quit, disc, dropped, exit>>
  /\ UNCHANGED extVars

KeyChar(c) ==
  /\ pc = "input"
  /\ app.editing
  /\ Len(app.query_input) < MaxInput
  /\ app' = [app EXCEPT !.query_input = Append(app.query_input, c)]
  /\ pc' = "spawn"
  /\ UNCHANGED <<runnerVars, mret, streak, pushed>>
  /\ UNCHANGED <<burst_rx, chan, task, dispatched, quit, disc, dropped, exit>>
  /\ UNCHANGED extVars

\* The end of a pass: spawn a burst when should_spawn holds. `elapsed` is
\* last_burst.elapsed() >= burst_interval; once MaxBursts bursts were
\* dispatched the model lets no further interval elapse.
Spawn(elapsed) ==
  /\ pc = "spawn"
  /\ elapsed => dispatched < MaxBursts
  /\ IF should_spawn(app, burst_rx, elapsed)
     THEN /\ app' = [take_runner(app) EXCEPT !.state = "Running"]
          /\ task' = "running"
          /\ chan' = "open"
          /\ burst_rx' = TRUE
          /\ dispatched' = dispatched + 1
     ELSE UNCHANGED <<app, task, chan, burst_rx, dispatched>>
  /\ pc' = "poll"
  /\ UNCHANGED <<runnerVars, mret, streak, pushed>>
  /\ UNCHANGED <<quit, disc, dropped, exit>>
  /\ UNCHANGED extVars

\* --- the spawned task ---
\* run_burst returned (Err(Config) when no query is loaded) and the task sends
\* (runner, result); a send to a dropped receiver fails and drops the message.
TaskSend ==
  /\ task = "running"
  /\ task' = "done"
  /\ IF chan = "open"
     THEN /\ chan' = IF nqueries > 0 THEN "sent_ok" ELSE "sent_err"
          /\ UNCHANGED dropped
     ELSE /\ chan' = "none"
          /\ dropped' = TRUE
  /\ UNCHANGED <<runnerVars, mret, appVars>>
  /\ UNCHANGED <<pc, burst_rx, dispatched, quit, disc, exit>>
  /\ UNCHANGED extVars

\* The task ends without sending (a panic inside run_burst, or the runtime
\* dropping it): the sender and the runner are dropped.
TaskAbort ==
  /\ task = "running"
  /\ task' = "done"
  /\ chan' = IF chan = "open" THEN "tx_dropped" ELSE "none"
  /\ dropped' = TRUE
  /\ UNCHANGED <<runnerVars, mret, appVars>>
  /\ UNCHANGED <<pc, burst_rx, dispatched, quit, disc, exit>>
  /\ UNCHANGED extVars

\* ------------------------------------------------------------------------
\* Specifications
\* ------------------------------------------------------------------------

\* Values of the variables a specification does not use.
RunnerRestParked ==
  /\ config = [mode |-> "Vector", burst_size |-> 0, concurrency |-> 0]
  /\ provider = [hybrid_impl |-> FALSE]
  /\ rpc = "idle"
  /\ futures = <<>>
  /\ permits = 0
  /\ results = <<>>
  /\ ret = None

AppParked ==
  /\ app = AppNew
  /\ streak = <<>>
  /\ pushed = 0

LoopParked ==
  /\ pc = "parked"
  /\ burst_rx = FALSE
  /\ chan = "none"
  /\ task = "none"
  /\ dispatched = 0
  /\ quit = "none"
  /\ disc = [app |-> 0, provider |-> 0]
  /\ dropped = FALSE
  /\ exit = "none"

\* ------------------------------------------------------------------------
\* recall_at_k (metrics.rs)
\* ------------------------------------------------------------------------
MaxIds == 3
MaxK == 4

\* Document ids, and the lists of at most n of them (ids may repeat).
Ids == {"a", "b", "c"}
IdLists(n) == UNION {[1..m -> Ids] : m \in 0..n}

\* The lists of the unit test.
TestReturned == <<"a", "b", "c", "d", "e">>
TestExpected == <<"a", "c", "e">>

\* usize::min
min(x, y) == IF x <= y THEN x ELSE y

\* An f64 quotient kept as its two integer terms. 0.0 / 0.0 is NaN.
Quotient(n, d) == [num |-> n, den |-> d]
IsNaN(q) == q.den = 0 /\ q.num = 0

\* recall_at_k: k is clamped to expected.len(), and the clamped k cuts both
\* lists; hits counts positions of `returned`, not distinct ids.
recall_at_k(ret_ids, exp_ids, kk) ==
  IF exp_ids = <<>>
  THEN Quotient(0, 1)
  ELSE LET k2 == min(kk, Len(exp_ids))
           expected_set == {exp_ids[i] : i \in 1..k2}
           hits == Cardinality({i \in 1..min(k2, Len(ret_ids)) :
                                  ret_ids[i] \in expected_set})
       IN Quotient(hits, k2)

\* One call of recall_at_k on the drawn arguments.
RecallCall ==
  /\ recall_ret = None
  /\ recall_ret' = Some(recall_at_k(returned, expected, at_k))
  /\ UNCHANGED <<returned, expected, at_k>>
  /\ UNCHANGED <<runnerVars, mret, appVars, loopVars, opsVars, mainVars>>

\* ------------------------------------------------------------------------
\* BenchmarkRunner::warmup, run_sample_query and run_custom_query (runner.rs)
\* ------------------------------------------------------------------------
MaxWarmup == 3

OpIdle == [name |-> "idle", st |-> "idle", i |-> 0, inflight |-> 0]

\* The call execute_query issues: the query's index in self.queries (or
\* "custom" for a query handed in) and the include_payload of its params.
BackendCall(q, payload) == [query |-> q, include_payload |-> payload]

\* The engine of a runner between two of its methods: fresh, or (with
\* queries loaded) after a burst.
EngineStates(nq) ==
  IF nq = 0 THEN {MetricsNew}
  ELSE {MetricsNew,
        run_burst_tail(start_burst(MetricsNew),
                       <<[outcome |-> "Ok", latency_us |-> 1, query |-> 0]>>).m}

\* warmup up to its loop: without queries it warns and returns Ok.
RWarmupBegin ==
  /\ op.name = "idle"
  /\ IF nqueries = 0
     THEN /\ op' = [op EXCEPT !.name = "warmup", !.st = "done"]
          /\ opret' = Some("Ok")
     ELSE /\ op' = [op EXCEPT !.name = "warmup", !.st = "loop"]
          /\ UNCHANGED opret
  /\ UNCHANGED <<warmup_iterations, calls>>
  /\ UNCHANGED <<runnerVars, mret, appVars, loopVars, recallVars, mainVars>>

\* A warmup loop that issues its next call without awaiting the last one.
RWarmupCallEager ==
  /\ op.name = "warmup"
  /\ op.st = "loop"
  /\ op.i < warmup_iterations
  /\ calls' = Append(calls, BackendCall(op.i % nqueries, FALSE))
  /\ op' = [op EXCEPT !.i = op.i + 1, !.inflight = op.inflight + 1]
  /\ UNCHANGED <<warmup_iterations, opret>>
  /\ UNCHANGED <<runnerVars, mret, appVars, loopVars, recallVars, mainVars>>

\* Iteration i of the loop issues execute_query(&self.queries[i % len],
\* &params), params with include_payload at its default; the loop is
\* suspended on the call until it returns.
RWarmupCall ==
  /\ op.name = "warmup"
  /\ op.st = "loop"
  /\ op.inflight = 0
  /\ op.i < warmup_iterations
  /\ calls' = Append(calls, BackendCall(op.i % nqueries, FALSE))
  /\ op' = [op EXCEPT !.i = op.i + 1, !.inflight = op.inflight + 1]
  /\ UNCHANGED <<warmup_iterations, opret>>
  /\ UNCHANGED <<runnerVars, mret, appVars, loopVars, recallVars, mainVars>>

\* The call returns; `let _ =` discards the result, Ok or Err.
RWarmupCallReturn(outcome) ==
  /\ op.name = "warmup"
  /\ op.inflight > 0
  /\ outcome \in CallOutcomes(config, provider)
  /\ op' = [op EXCEPT !.inflight = op.inflight - 1]
  /\ UNCHANGED <<warmup_iterations, calls, opret>>
  /\ UNCHANGED <<runnerVars, mret, appVars, loopVars, recallVars, mainVars>>

\* The loop is over: warmup returns Ok.
RWarmupEnd ==
  /\ op.name = "warmup"
  /\ op.st = "loop"
  /\ op.inflight = 0
  /\ op.i = warmup_iterations
  /\ op' = [op EXCEPT !.st = "done"]
  /\ opret' = Some("Ok")
  /\ UNCHANGED <<warmup_iterations, calls>>
  /\ UNCHANGED <<runnerVars, mret, appVars, loopVars, recallVars, mainVars>>

\* A sample query issued with the parameters of a burst's calls.
RSampleQueryNoPayload ==
  /\ op.name = "idle"
  /\ IF nqueries = 0
     THEN /\ op' = [op EXCEPT !.name = "sample", !.st = "done"]
          /\ opret' = Some("Config")
          /\ UNCHANGED calls
     ELSE /\ op' = [op EXCEPT !.name = "sample", !.st = "call", !.inflight = 1]
          /\ calls' = Append(calls, BackendCall(0, FALSE))
          /\ UNCHANGED opret
  /\ UNCHANGED warmup_iterations
  /\ UNCHANGED <<runnerVars, mret, appVars, loopVars, recallVars, mainVars>>

\* run_sample_query up to its call: a Config error without queries, else
\* execute_query(&self.queries[0], &params) with include_payload: true.
RSampleQuery ==
  /\ op.name = "idle"
  /\ IF nqueries = 0
     THEN /\ op' = [op EXCEPT !.name = "sample", !.st = "done"]
          /\ opret' = Some("Config")
          /\ UNCHANGED calls
     ELSE /\ op' = [op EXCEPT !.name = "sample", !.st = "call", !.inflight = 1]
          /\ calls' = Append(calls, BackendCall(0, TRUE))
          /\ UNCHANGED opret
  /\ UNCHANGED warmup_iterations
  /\ UNCHANGED <<runnerVars, mret, appVars, loopVars, recallVars, mainVars>>

\* run_custom_query up to its call: execute_query(query, &params) with
\* include_payload: true, whatever queries are loaded.
RCustomQuery ==
  /\ op.name = "idle"
  /\ op' = [op EXCEPT !.name = "custom", !.st = "call", !.inflight = 1]
  /\ calls' = Append(calls, BackendCall("custom", TRUE))
  /\ UNCHANGED <<warmup_iterations, opret>>
  /\ UNCHANGED <<runnerVars, mret, appVars, loopVars, recallVars, mainVars>>

\* The call of run_sample_query or run_custom_query returns: `?` hands an
\* error on, a success is returned with the query's text.
RQueryReturn(outcome) ==
  /\ op.name \in {"sample", "custom"}
  /\ op.st = "call"
  /\ outcome \in CallOutcomes(config, provider)
  /\ op' = [op EXCEPT !.st = "done", !.inflight = 0]
  /\ opret' = Some(outcome)
  /\ UNCHANGED <<warmup_iterations, calls>>
  /\ UNCHANGED <<runnerVars, mret, appVars, loopVars, recallVars, mainVars>>

OpsParked ==
  /\ warmup_iterations = 0
  /\ op = OpIdle
  /\ calls = <<>>
  /\ opret = None

\* ------------------------------------------------------------------------
\* main, run_headless and run_tui (main.rs)
\* ------------------------------------------------------------------------
MaxCliBursts == 2
MaxRunBursts == 3

OutputFormats == {"Json", "Csv"}

\* The queries files main may be pointed at: missing, unreadable as a
\* QueryFile, or a list of n queries.
QueryFiles ==
  {[exists |-> FALSE, parses |-> FALSE, n |-> 0],
   [exists |-> TRUE, parses |-> FALSE, n |-> 0]}
    \cup {[exists |-> TRUE, parses |-> TRUE, n |-> n] : n \in 0..MaxQueries}

\* An entry of the log: a provider call, a burst or a printed line.
Event(what, n) == [what |-> what, n |-> n]

\* `count` of run_headless: usize::MAX stands for "until stopped".
burst_limit(c) == IF c.bursts = 0 THEN MaxRunBursts + 1 ELSE c.bursts

\* The line run_headless prints for a burst.
DataLine(c, n) == Event(IF c.output = "Csv" THEN "csv_data" ELSE "json", n)

\* main up to the mode dispatch: Config::from_file, then the existence check
\* of the queries file.
MStart(config_ok) ==
  /\ mpc = "start"
  /\ IF config_ok /\ qfile.exists
     THEN /\ mpc' = "load"
          /\ UNCHANGED status
     ELSE /\ mpc' = "exited"
          /\ status' = "err"
  /\ UNCHANGED <<cli, qfile, events, done, embedded>>
  /\ UNCHANGED <<runnerVars, mret, appVars, loopVars, recallVars, opsVars>>

\* A load_and_embed_queries without the check for an empty query list.
MLoadQueriesNoEmptyCheck(embedder_ok) ==
  /\ mpc = "load"
  /\ IF qfile.parses /\ embedder_ok
     THEN /\ mpc' = "embed"
          /\ UNCHANGED status
     ELSE /\ mpc' = "exited"
          /\ status' = "err"
  /\ UNCHANGED <<cli, qfile, events, done, embedded>>
  /\ UNCHANGED <<runnerVars, mret, appVars, loopVars, recallVars, opsVars>>

\* App::new and load_and_embed_queries up to the embed_queries call:
\* QueryFile::from_file, the empty check and Embedder::from_config, each
\* returning its error through `?`.
MLoadQueries(embedder_ok) ==
  /\ mpc = "load"
  /\ IF qfile.parses /\ qfile.n > 0 /\ embedder_ok
     THEN /\ mpc' = "embed"
          /\ UNCHANGED status
     ELSE /\ mpc' = "exited"
          /\ status' = "err"
  /\ UNCHANGED <<cli, qfile, events, done, embedded>>
  /\ UNCHANGED <<runnerVars, mret, appVars, loopVars, recallVars, opsVars>>

\* embed_queries returns: an error ends the run; m embeddings are stored in
\* self.queries with the embedder, and the mode's function goes on (run_tui
\* to tui::init).
MEmbedReturn(ok, m) ==
  /\ mpc = "embed"
  /\ m <= qfile.n
  /\ IF ok
     THEN /\ nqueries' = m
          /\ app' = [app EXCEPT !.embedder = TRUE]
          /\ embedded' = TRUE
          /\ mpc' = IF cli.headless THEN "connect" ELSE "tui_init"
          /\ UNCHANGED status
     ELSE /\ mpc' = "exited"
          /\ status' = "err"
          /\ UNCHANGED <<nqueries, app, embedded>>
  /\ UNCHANGED <<cli, qfile, events, done>>
  /\ UNCHANGED <<config, provider, metrics, rpc, futures, permits, results, ret>>
  /\ UNCHANGED <<mret, streak, pushed, loopVars, recallVars, opsVars>>

\* App::connect called by run_headless: create_provider may fail before the
\* provider's connect is invoked; the provider's connect may fail.
MConnect(outcome) ==
  /\ mpc = "connect"
  /\ events' = IF outcome = "create_err" THEN events
               ELSE Append(events, Event("connect", 0))
  /\ IF outcome = "ok"
     THEN /\ app' = connect_ok(app)
          /\ mpc' = "warmup"
          /\ UNCHANGED status
     ELSE /\ app' = connect_err(app)
          /\ mpc' = "exited"
          /\ status' = "err"
  /\ UNCHANGED <<cli, qfile, done, embedded>>
  /\ UNCHANGED <<runnerVars, mret, streak, pushed, loopVars, recallVars, opsVars>>

\* App::warmup (the runner's warmup always returns Ok), then the CSV header
\* printed once before the loop.
MWarmup ==
  /\ mpc = "warmup"
  /\ app' = warmup_done(app)
  /\ events' = Append(events, Event("warmup", 0))
                 \o (IF cli.output = "Csv" THEN <<Event("csv_header", 0)>> ELSE <<>>)
  /\ mpc' = "burst"
  /\ UNCHANGED <<cli, qfile, done, embedded, status>>
  /\ UNCHANGED <<runnerVars, mret, streak, pushed, loopVars, recallVars, opsVars>>

\* A loop body that prints the CSV header with every data line.
MRunBurstHeaderEach(ok) ==
  /\ mpc = "burst"
  /\ done < burst_limit(cli)
  /\ done < MaxRunBursts
  /\ ok => nqueries > 0
  /\ IF ok
     THEN /\ events' = events \o <<Event("burst", done + 1)>>
                         \o (IF cli.output = "Csv" THEN <<Event("csv_header", 0)>> ELSE <<>>)
                         \o <<DataLine(cli, done + 1)>>
          /\ app' = [app EXCEPT !.state = "Idle",
                                !.history = push(app.history, Entry(done + 1, LoopBurst))]
          /\ done' = done + 1
          /\ mpc' = IF done + 1 = burst_limit(cli) THEN "disconnect" ELSE "burst"
          /\ UNCHANGED status
     ELSE /\ events' = Append(events, Event("burst", done + 1))
          /\ app' = [app EXCEPT !.state = "Running"]
          /\ mpc' = "exited"
          /\ status' = "err"
          /\ UNCHANGED done
  /\ UNCHANGED <<cli, qfile, embedded>>
  /\ UNCHANGED <<runnerVars, mret, streak, pushed, loopVars, recallVars, opsVars>>

\* One pass of the loop of run_headless: App::run_burst, whose error returns
\* through `?` (leaving the state Running, with no disconnect), then the
\* line printed for the burst.
MRunBurst(ok) ==
  /\ mpc = "burst"
  /\ done < burst_limit(cli)
  /\ done < MaxRunBursts
  /\ ok => nqueries > 0
  /\ IF ok
     THEN /\ events' = events \o <<Event("burst", done + 1), DataLine(cli, done + 1)>>
          /\ app' = [app EXCEPT !.state = "Idle",
                                !.history = push(app.history, Entry(done + 1, LoopBurst))]
          /\ done' = done + 1
          /\ mpc' = IF done + 1 = burst_limit(cli) THEN "disconnect" ELSE "burst"
          /\ UNCHANGED status
     ELSE /\ events' = Append(events, Event("burst", done + 1))
          /\ app' = [app EXCEPT !.state = "Running"]
          /\ mpc' = "exited"
          /\ status' = "err"
          /\ UNCHANGED done
  /\ UNCHANGED <<cli, qfile, embedded>>
  /\ UNCHANGED <<runnerVars, mret, streak, pushed, loopVars, recallVars, opsVars>>

\* App::disconnect after the loop, and the return of run_headless.
MDisconnect(ok) ==
  /\ mpc = "disconnect"
  /\ events' = Append(events, Event("disconnect", 0))
  /\ IF ok
     THEN /\ app' = [app EXCEPT !.runner = FALSE, !.state = "Idle"]
          /\ status' = "ok"
     ELSE /\ status' = "err"
          /\ UNCHANGED app
  /\ mpc' = "exited"
  /\ UNCHANGED <<cli, qfile, done, embedded>>
  /\ UNCHANGED <<runnerVars, mret, streak, pushed, loopVars, recallVars, opsVars>>

\* run_tui: tui::init, whose error returns through `?`.
MTuiInit(ok) ==
  /\ mpc = "tui_init"
  /\ IF ok
     THEN /\ mpc' = "tui_run"
          /\ UNCHANGED status
     ELSE /\ mpc' = "exited"
          /\ status' = "err"
  /\ UNCHANGED <<cli, qfile, events, done, embedded>>
  /\ UNCHANGED <<runnerVars, mret, appVars, loopVars, recallVars, opsVars>>

\* tui::run starts with App::connect; what follows it is the control loop,
\* whose result run_tui returns after tui::restore.
MTuiRun(outcome, result) ==
  /\ mpc = "tui_run"
  /\ outcome # "ok" => result = "err"
  /\ events' = IF outcome = "create_err" THEN events
               ELSE Append(events, Event("connect", 0))
  /\ app' = IF outcome = "ok" THEN connect_ok(app) ELSE connect_err(app)
  /\ mpc' = "exited"
  /\ status' = result
  /\ UNCHANGED <<cli, qfile, done, embedded>>
  /\ UNCHANGED <<runnerVars, mret, streak, pushed, loopVars, recallVars, opsVars>>

MainParked ==
  /\ cli = [headless |-> FALSE, bursts |-> 0, output |-> "Json"]
  /\ qfile = [exists |-> FALSE, parses |-> FALSE, n |-> 0]
  /\ mpc = "parked"
  /\ events = <<>>
  /\ done = 0
  /\ embedded = FALSE
  /\ status = "none"

RecallParked ==
  /\ returned = <<>>
  /\ expected = <<>>
  /\ at_k = 0
  /\ recall_ret = None

ExtParked == RecallParked /\ OpsParked /\ MainParked

\* One run_burst of a fresh BenchmarkRunner, under every configuration.
BurstInit ==
  /\ ExtParked
  /\ RunnerInit
  /\ mret = None
  /\ AppParked
  /\ LoopParked

BurstNext == RunnerNext

BurstSpec == BurstInit /\ [][BurstNext]_vars

\* run_burst is polled to completion and every backend call returns: a step
\* of the burst that can be taken is eventually taken. A step is either the
\* entry or the tail of run_burst, a future that takes a free permit, or the
\* return of a call in flight; each of them moves the burst forward, so the
\* fairness of their disjunction lets none of them wait forever.
FairBurstSpec == BurstSpec /\ WF_vars(BurstNext)

\* The Metrics engine's methods called in any order on a fresh engine.
MetricsInit ==
  /\ ExtParked
  /\ metrics = MetricsNew
  /\ mret = None
  /\ nqueries = 0
  /\ RunnerRestParked
  /\ AppParked
  /\ LoopParked

MetricsNext ==
  \/ MStartBurst
  \/ \E l \in SampleLatencies : \E r \in SampleRecalls : MRecordSuccess(l, r)
  \/ \E l \in SampleLatencies : MRecordFailure(l)
  \/ MFinishBurst

MetricsSpec == MetricsInit /\ [][MetricsNext]_vars

\* MetricsHistory::push on an empty history of every capacity (max_history
\* is a public field).
HistoryInit ==
  /\ ExtParked
  /\ \E c \in 0..MaxHistory : app = [AppNew EXCEPT !.history.max_history = c]
  /\ streak = <<>>
  /\ pushed = 0
  /\ metrics = MetricsNew
  /\ mret = None
  /\ nqueries = 0
  /\ RunnerRestParked
  /\ LoopParked

HistoryNext == \E bm \in PushableBursts : HPush(bm)

HistorySpec == HistoryInit /\ [][HistoryNext]_vars

\* The App's synchronous methods called in any order, from every AppState
\* (state is a public field), with and without a runner.
AppInit ==
  /\ ExtParked
  /\ \E st \in AppStates : \E r \in BOOLEAN :
       app = [AppNew EXCEPT !.state = st, !.runner = r]
  /\ streak = <<>>
  /\ pushed = 0
  /\ metrics = MetricsNew
  /\ mret = None
  /\ nqueries = 0
  /\ RunnerRestParked
  /\ LoopParked

AppNext ==
  \/ ATogglePause
  \/ AToggleView
  \/ AStartEditing
  \/ ACancelEditing
  \/ \E d \in {-1, 1} : AScrollResults(d)
  \/ ATakeRunner
  \/ APutRunner
  \/ \E ok \in BOOLEAN : \E n \in 0..MaxResults : ARunSample(ok, n)

AppSpec == AppInit /\ [][AppNext]_vars

\* EditSpec: the query editor of the App. The App is as App::new leaves it,
\* with or without a runner and an embedder; the operator edits the input,
\* submits it, scrolls, and the runner is taken and put back.
EditInit ==
  /\ ExtParked
  /\ \E r \in BOOLEAN : \E e \in BOOLEAN :
       app = [AppNew EXCEPT !.runner = r, !.embedder = e]
  /\ streak = <<>> /\ pushed = 0 /\ metrics = MetricsNew /\ mret = None
  /\ nqueries = 0 /\ RunnerRestParked /\ LoopParked

EditNext ==
  \/ AStartEditing \/ ACancelEditing
  \/ \E d \in {-1, 1} : AScrollResults(d)
  \/ ATakeRunner \/ APutRunner
  \/ \E c \in Chars : ATypeChar(c)
  \/ \E e \in {"ok", "err", "empty"} : \E ok \in BOOLEAN : \E n \in 0..MaxResults :
       ASubmitQuery(e, ok, n)

EditSpec == EditInit /\ [][EditNext]_vars

\* tui::run from its first line, on an App whose queries were loaded and
\* embedded (the embedder may have returned no embedding: nqueries = 0).
LoopInit ==
  /\ ExtParked
  /\ app = [AppNew EXCEPT !.embedder = TRUE]
  /\ streak = <<>>
  /\ pushed = 0
  /\ nqueries \in {0, 1}
  /\ metrics = MetricsNew
  /\ mret = None
  /\ RunnerRestParked
  /\ pc = "connect"
  /\ burst_rx = FALSE
  /\ chan = "none"
  /\ task = "none"
  /\ dispatched = 0
  /\ quit = "none"
  /\ disc = [app |-> 0, provider |-> 0]
  /\ dropped = FALSE
  /\ exit = "none"

\* The steps of the control loop itself.
LoopStep ==
  \/ ConnectOk
  \/ ConnectErr
  \/ Warmup
  \/ Poll
  \/ NoInput
  \/ KeyQuit
  \/ QuitRecv
  \/ QuitClosed
  \/ QuitTimeout
  \/ \E ok \in BOOLEAN : Disconnect(ok)
  \/ KeyPause
  \/ KeyTab
  \/ KeySlash
  \/ KeyRefresh
  \/ \E d \in {-1, 1} : KeyScroll(d)
  \/ \E ok \in BOOLEAN : \E n \in 0..MaxResults : SampleReturn(ok, n)
  \/ KeyEnter
  \/ \E o \in {"ok", "err", "empty"} : EmbedReturn(o)
  \/ \E ok \in BOOLEAN : \E n \in 0..MaxResults : CustomReturn(ok, n)
  \/ KeyEscEditing
  \/ KeyBackspace
  \/ \E c \in Chars : KeyChar(c)
  \/ \E e \in BOOLEAN : Spawn(e)

\* The steps of the background task.
TaskStep ==
  \/ TaskSend
  \/ TaskAbort

LoopNext == LoopStep \/ TaskStep

LoopSpec == LoopInit /\ [][LoopNext]_vars

\* The control loop keeps running (its thread is scheduled and the calls it
\* awaits return); nothing is assumed of the background task.
FairLoopSpec == LoopSpec /\ WF_vars(LoopStep)

\* Time passes as well: last_burst.elapsed() reaches burst_interval and stays
\* above it, so a loop that keeps coming to its spawn check finds the interval
\* elapsed at one of them (as long as the model's MaxBursts allows a dispatch).
TimedLoopSpec == FairLoopSpec /\ SF_vars(Spawn(TRUE))

\* recall_at_k on every pair of short id lists and every k, and on the lists
\* of the unit test with k = 3 and k = 5.
RecallInit ==
  /\ \/ /\ returned \in IdLists(MaxIds)
        /\ expected \in IdLists(MaxIds)
        /\ at_k \in 0..MaxK
     \/ /\ returned = TestReturned
        /\ expected = TestExpected
        /\ at_k \in {3, 5}
  /\ recall_ret = None
  /\ metrics = MetricsNew
  /\ mret = None
  /\ nqueries = 0
  /\ RunnerRestParked
  /\ AppParked
  /\ LoopParked
  /\ OpsParked
  /\ MainParked

RecallNext == RecallCall

RecallSpec == RecallInit /\ [][RecallNext]_vars

\* One of warmup, run_sample_query and run_custom_query called on a
\* connected runner, under every configuration.
QueryInit ==
  /\ config \in [mode : SearchModes, burst_size : {1}, concurrency : {1}]
  /\ nqueries \in 0..MaxQueries
  /\ provider \in [hybrid_impl : BOOLEAN]
  /\ metrics \in EngineStates(nqueries)
  /\ warmup_iterations \in 0..MaxWarmup
  /\ rpc = "idle"
  /\ futures = <<>>
  /\ permits = 0
  /\ results = <<>>
  /\ ret = None
  /\ mret = None
  /\ op = OpIdle
  /\ calls = <<>>
  /\ opret = None
  /\ AppParked
  /\ LoopParked
  /\ RecallParked
  /\ MainParked

QueryNext ==
  \/ RWarmupBegin
  \/ RWarmupCall
  \/ \E o \in {"Ok", "QueryExecution", "Unsupported"} : RWarmupCallReturn(o)
  \/ RWarmupEnd
  \/ RSampleQuery
  \/ RCustomQuery
  \/ \E o \in {"Ok", "QueryExecution", "Unsupported"} : RQueryReturn(o)

QuerySpec == QueryInit /\ [][QueryNext]_vars

\* main from its first line, for every command line and queries file.
MainInit ==
  /\ cli \in [headless : BOOLEAN, bursts : 0..MaxCliBursts, output : OutputFormats]
  /\ qfile \in QueryFiles
  /\ mpc = "start"
  /\ events = <<>>
  /\ done = 0
  /\ embedded = FALSE
  /\ status = "none"
  /\ metrics = MetricsNew
  /\ mret = None
  /\ nqueries = 0
  /\ RunnerRestParked
  /\ AppParked
  /\ LoopParked
  /\ RecallParked
  /\ OpsParked

MainNext ==
  \/ \E ok \in BOOLEAN : MStart(ok)
  \/ \E ok \in BOOLEAN : MLoadQueries(ok)
  \/ \E ok \in BOOLEAN : \E m \in 0..MaxQueries : MEmbedReturn(ok, m)
  \/ \E o \in {"ok", "create_err", "connect_err"} : MConnect(o)
  \/ MWarmup
  \/ \E ok \in BOOLEAN : MRunBurst(ok)
  \/ \E ok \in BOOLEAN : MDisconnect(ok)
  \/ \E ok \in BOOLEAN : MTuiInit(ok)
  \/ \E o \in {"ok", "create_err", "connect_err"} : \E r \in {"ok", "err"} : MTuiRun(o, r)

MainSpec == MainInit /\ [][MainNext]_vars

\* ------------------------------------------------------------------------
\* Properties of the burst runner (BurstSpec)
\* ------------------------------------------------------------------------
Returned == rpc = "returned"
ReturnedOk == Returned /\ Unwrap(ret).ok
FailedResults == {k \in DOMAIN results : results[k].outcome # "Ok"}
ResultLatencies == {results[k].latency_us : k \in DOMAIN results}

\* C1: every BurstMetrics that run_burst returns has success_count +
\* failure_count = query_count = the configured burst_size, and so has the
\* copy the engine keeps in its burst list.
C1_BurstCounts ==
  ReturnedOk =>
    LET bm == Unwrap(ret).metrics
    IN /\ bm.success_count + bm.failure_count = bm.query_count
       /\ bm.query_count = config.burst_size
       /\ \A k \in DOMAIN metrics.bursts :
            /\ metrics.bursts[k].success_count + metrics.bursts[k].failure_count
                 = metrics.bursts[k].query_count
            /\ metrics.bursts[k].query_count = config.burst_size

\* A burst of three queries over two loaded queries returned with successes
\* and failures mixed.
C1_Witness ==
  /\ ReturnedOk
  /\ config.burst_size >= 3
  /\ nqueries >= 2
  /\ Unwrap(ret).metrics.success_count >= 1
  /\ Unwrap(ret).metrics.failure_count >= 1

\* C2: at every moment of a burst the backend calls in flight are at most
\* `concurrency`: each holds one permit, taken before the call is issued and
\* given back when it completes, so permits out plus permits left is constant.
C2_ConcurrencyBound ==
  rpc = "collect" =>
    /\ Cardinality(InFlight) <= config.concurrency
    /\ permits + Cardinality(InFlight) = config.concurrency

\* The ceiling is reached with a further call still waiting for a permit,
\* after an earlier call has already completed and released its permit.
C2_Witness ==
  /\ rpc = "collect"
  /\ config.concurrency >= 2
  /\ Cardinality(InFlight) = config.concurrency
  /\ permits = 0
  /\ \E i \in DOMAIN futures : futures[i].st = "pending"

\* C8: a failed backend call (Unsupported included) never aborts the burst:
\* with queries loaded run_burst returns Ok, every one of the burst_size calls
\* was made and collected, failure_count is the number of failed calls, and
\* the failed calls' latencies are part of the sample the latency metrics are
\* computed from.
C8_FailuresDoNotAbort ==
  (Returned /\ nqueries > 0) =>
    /\ Unwrap(ret).ok
    /\ Len(results) = config.burst_size
    /\ Unwrap(ret).metrics.failure_count = Cardinality(FailedResults)
    /\ Unwrap(ret).metrics.success_count = Len(results) - Cardinality(FailedResults)
    /\ Unwrap(ret).metrics.latency.mean_den = IF results = <<>> THEN 1 ELSE Len(results)
    /\ \A l \in ResultLatencies :
         /\ Unwrap(ret).metrics.latency.min_us <= l
         /\ l <= Unwrap(ret).metrics.latency.max_us
    /\ metrics.current_burst = None

\* A hybrid burst against a provider without hybrid_search: every call ended
\* Unsupported and the burst still returned Ok with that many failures.
C8_Witness ==
  /\ ReturnedOk
  /\ config.mode = "Hybrid"
  /\ ~provider.hybrid_impl
  /\ config.burst_size >= 2
  /\ \A k \in DOMAIN results : results[k].outcome = "Unsupported"
  /\ Unwrap(ret).metrics.failure_count = config.burst_size

\* C14: run_burst with no queries loaded returns a Config error, issues no
\* backend call and leaves the Metrics engine as it was: no burst started,
\* burst list and histogram unchanged.
C14_NoQueriesConfigError ==
  (Returned /\ nqueries = 0) =>
    /\ ret = Some([ok |-> FALSE, err |-> "Config"])
    /\ futures = <<>>
    /\ results = <<>>
    /\ metrics = MetricsNew

\* run_burst has returned on a runner without queries whose configuration
\* asks for a burst of several calls.
C14_Witness ==
  /\ Returned
  /\ nqueries = 0
  /\ config.burst_size >= 2
  /\ config.concurrency >= 1
  /\ ~Unwrap(ret).ok

\* The burst that start_burst opened and nothing was recorded into.
BurstUntouched(m) ==
  /\ IsSome(m.current_burst)
  /\ Unwrap(m.current_burst).latencies_us = <<>>
  /\ Unwrap(m.current_burst).successes = 0
  /\ Unwrap(m.current_burst).failures = 0

\* C22: the phases of run_burst are strictly ordered. start_burst has run
\* before any call is dispatched; nothing is recorded while calls are
\* dispatched or collected, so none is recorded with a call in flight; the
\* records happen only after all burst_size outcomes are collected; and
\* finish_burst comes after the last record, closing a burst that holds every
\* outcome.
C22_PhasesOrdered ==
  /\ []((\E i \in DOMAIN futures : futures[i].st # "pending")
          => rpc \in {"collect", "returned"})
  /\ [](rpc = "collect" => BurstUntouched(metrics))
  /\ [][(rpc = "collect" /\ futures' # futures)
          => (metrics' = metrics /\ BurstUntouched(metrics))]_vars
  /\ [][metrics' # metrics =>
          \/ /\ rpc = "idle"
             /\ futures = <<>>
             /\ metrics' = start_burst(metrics)
          \/ /\ rpc = "collect"
             /\ InFlight = {}
             /\ AllDone
             /\ Len(results) = config.burst_size
             /\ metrics'.current_burst = None
             /\ metrics'.bursts =
                  Append(metrics.bursts,
                         BurstMetricsOf(Unwrap(record_results(metrics, results).current_burst)))
             /\ metrics'.bursts[Len(metrics'.bursts)].query_count = Len(results)
       ]_vars

\* In the middle of a burst: one outcome collected, one call in flight, one
\* call still waiting for a permit.
C22_Witness ==
  /\ rpc = "collect"
  /\ Len(results) >= 1
  /\ InFlight # {}
  /\ \E i \in DOMAIN futures : futures[i].st = "pending"
  /\ BurstUntouched(metrics)

\* The collected tuples in another completion order.
Reordered(rs, perm) == [k \in DOMAIN rs |-> rs[perm[k]]]

\* C26: the BurstMetrics of a burst does not depend on the order in which
\* its calls completed: recording the same outcomes in any other completion
\* order yields the same success_count, failure_count, query_count and the
\* same LatencyMetrics fields as the burst returned.
C26_OrderIndependent ==
  ReturnedOk =>
    \A perm \in Permutations(DOMAIN results) :
      LET other == run_burst_tail(start_burst(MetricsNew), Reordered(results, perm)).ret
          bm == Unwrap(ret).metrics
      IN /\ other.ok
         /\ other.metrics.success_count = bm.success_count
         /\ other.metrics.failure_count = bm.failure_count
         /\ other.metrics.query_count = bm.query_count
         /\ other.metrics.latency = bm.latency

\* A burst of three returned whose calls completed out of dispatch order, with
\* a slower call collected before a faster one and a failure among them.
C26_Witness ==
  /\ ReturnedOk
  /\ Len(results) = 3
  /\ results[1].query = 1
  /\ results[1].latency_us > results[2].latency_us
  /\ results[2].outcome # results[3].outcome

\* The calls of the burst that were dispatched (issued to the backend), and
\* those among them made with query q.
Dispatched == {i \in DOMAIN futures : futures[i].st # "pending"}
DispatchedWith(q) == {i \in Dispatched : futures[i].query = q}

\* C29: a run_burst that returns with queries loaded has dispatched exactly
\* burst_size backend calls (never more while it runs, each once), the i-th
\* (i from 0) with the query of index i mod query_count, so the numbers of
\* calls made with any two queries differ by at most one; the configuration,
\* and with it the dispatch mode, is the same for every call: the calls of a
\* burst end Unsupported all together or not at all.
C29_DispatchCycle ==
  /\ []((rpc # "idle" /\ nqueries > 0) =>
          /\ DOMAIN futures = 1..config.burst_size
          /\ \A i \in DOMAIN futures : futures[i].query = (i - 1) % nqueries
          /\ Cardinality(Dispatched) <= config.burst_size)
  /\ []((Returned /\ nqueries > 0) =>
          /\ Cardinality(Dispatched) = config.burst_size
          /\ Len(results) = config.burst_size
          /\ \A q \in 0..(nqueries - 1) :
               Cardinality({k \in DOMAIN results : results[k].query = q})
                 = Cardinality(DispatchedWith(q))
          /\ \A q1, q2 \in 0..(nqueries - 1) :
               Cardinality(DispatchedWith(q1)) - Cardinality(DispatchedWith(q2)) <= 1
          /\ \/ \A k \in DOMAIN results : results[k].outcome = "Unsupported"
             \/ \A k \in DOMAIN results : results[k].outcome # "Unsupported")
  /\ [][config' = config /\ provider' = provider /\ nqueries' = nqueries]_vars
  /\ [][\A i \in DOMAIN futures :
          (i \in DOMAIN futures' /\ futures'[i].st # futures[i].st) =>
            \/ futures[i].st = "pending" /\ futures'[i].st = "inflight"
            \/ futures[i].st = "inflight" /\ futures'[i].st = "done"]_vars

\* A burst of three calls over two queries has returned: two calls were made
\* with query 0 and one with query 1.
C29_Witness ==
  /\ Returned
  /\ config.burst_size = 3
  /\ nqueries = 2
  /\ Cardinality(DispatchedWith(0)) = 2
  /\ Cardinality(DispatchedWith(1)) = 1
  /\ config.mode = "Hybrid"

\* C33: run_burst terminates: for every burst_size, every concurrency
\* (0 included) and every number of loaded queries >= 1, if every backend
\* call returns then a run_burst that was entered returns a result.
C33_RunBurstTerminates ==
  (rpc = "collect" /\ nqueries >= 1) ~> (Returned /\ IsSome(ret))

\* The history after n pushes of the BurstMetrics bm.
RECURSIVE PushedTimes(_, _, _)
PushedTimes(h, bm, n) ==
  IF n = 0 THEN h ELSE push(PushedTimes(h, bm, n - 1), Entry(n, bm))

\* C38: every BurstMetrics that run_burst produces has recall_at_k absent:
\* no recall is recorded while the burst runs, the returned metrics and the
\* engine's copies carry none, and the recall series of a history that such
\* metrics were pushed to, any number of times, is empty.
C38_NoRecallFromRunner ==
  /\ (rpc = "collect" => Unwrap(metrics.current_burst).recalls = <<>>)
  /\ \A k \in DOMAIN metrics.bursts : metrics.bursts[k].recall_at_k = None
  /\ ReturnedOk =>
       /\ Unwrap(ret).metrics.recall_at_k = None
       /\ \A n \in 0..MaxPushes :
            recall_series(PushedTimes(AppNew.history, Unwrap(ret).metrics, n)) = <<>>

\* A burst of two calls, both successful, has returned.
C38_Witness ==
  /\ ReturnedOk
  /\ config.burst_size = 2
  /\ Unwrap(ret).metrics.success_count = 2
  /\ Len(metrics.bursts) = 1

\* ------------------------------------------------------------------------
\* Properties of the Metrics engine (MetricsSpec)
\* ------------------------------------------------------------------------
PercentilesOrdered(l) ==
  /\ l.min_us <= l.p50_us
  /\ l.p50_us <= l.p90_us
  /\ l.p90_us <= l.p95_us
  /\ l.p95_us <= l.p99_us
  /\ l.p99_us <= l.max_us

\* C10: every finished burst with at least one recorded latency has
\* min_us <= p50_us <= p90_us <= p95_us <= p99_us <= max_us, whatever the
\* latencies recorded and the order they were recorded in.
C10_PercentileOrder ==
  /\ (IsSome(mret) /\ Unwrap(mret).query_count >= 1)
       => PercentilesOrdered(Unwrap(mret).latency)
  /\ \A k \in DOMAIN metrics.bursts :
       metrics.bursts[k].query_count >= 1
         => PercentilesOrdered(metrics.bursts[k].latency)

\* A burst whose sample was recorded out of order finished with three
\* different values among its minimum and percentiles.
C10_Witness ==
  /\ IsSome(mret)
  /\ Unwrap(mret).query_count >= 3
  /\ Unwrap(mret).latency.min_us < Unwrap(mret).latency.p50_us
  /\ Unwrap(mret).latency.p50_us < Unwrap(mret).latency.p90_us
  /\ Unwrap(mret).latency.p99_us = Unwrap(mret).latency.max_us
  /\ Unwrap(mret).failure_count >= 1

\* C15: with no burst active, record_success and record_failure change
\* nothing in the engine and finish_burst returns None and leaves the burst
\* list alone; a finish_burst that returns a result leaves no burst active, so
\* the next finish_burst returns None.
C15_NoActiveBurstNoOp ==
  /\ [](metrics.current_burst = None =>
          /\ \A l \in SampleLatencies :
               /\ record_failure(metrics, l) = metrics
               /\ \A r \in SampleRecalls : record_success(metrics, l, r) = metrics
          /\ finish_burst(metrics) = [m |-> metrics, ret |-> None])
  /\ [](IsSome(metrics.current_burst) =>
          LET fin == finish_burst(metrics)
          IN /\ IsSome(fin.ret)
             /\ fin.m.current_burst = None
             /\ finish_burst(fin.m) = [m |-> fin.m, ret |-> None])
  /\ [][(metrics.current_burst = None /\ metrics'.current_burst = None)
          => (metrics' = metrics /\ (mret' # mret => mret' = None))]_vars
  /\ [][(IsSome(mret') /\ mret' # mret) => metrics'.current_burst = None]_vars

\* A finish_burst repeated after a successful one returned None: a burst
\* with samples is in the list, none is active and the last call gave no
\* result.
C15_Witness ==
  /\ metrics.current_burst = None
  /\ mret = None
  /\ Len(metrics.bursts) = 1
  /\ metrics.bursts[1].query_count >= 2
  /\ metrics.latency_histogram = metrics.bursts[1].query_count

\* round(p / 100 * (n - 1)): the integer idx with idx <= x + 1/2 < idx + 1.
RoundedRank(p, n) ==
  CHOOSE idx \in 0..(n - 1) :
    100 * idx <= p * (n - 1) + 50 /\ p * (n - 1) + 50 < 100 * idx + 100

\* v is the element at 0-based index idx of the ascending arrangement of s.
AtSortedIndex(s, idx, v) ==
  /\ \E i \in DOMAIN s : s[i] = v
  /\ Cardinality({i \in DOMAIN s : s[i] < v}) <= idx
  /\ idx < Cardinality({i \in DOMAIN s : s[i] <= v})

\* The LatencyMetrics the claim describes for the sample s.
LatencyAsSpecified(s, l) ==
  IF s = <<>>
  THEN /\ l.min_us = 0 /\ l.max_us = 0 /\ l.mean_num = 0
       /\ l.p50_us = 0 /\ l.p90_us = 0 /\ l.p95_us = 0 /\ l.p99_us = 0
  ELSE /\ AtSortedIndex(s, 0, l.min_us)
       /\ AtSortedIndex(s, Len(s) - 1, l.max_us)
       /\ \A i \in DOMAIN s : l.min_us <= s[i] /\ s[i] <= l.max_us
       /\ AtSortedIndex(s, RoundedRank(50, Len(s)), l.p50_us)
       /\ AtSortedIndex(s, RoundedRank(90, Len(s)), l.p90_us)
       /\ AtSortedIndex(s, RoundedRank(95, Len(s)), l.p95_us)
       /\ AtSortedIndex(s, RoundedRank(99, Len(s)), l.p99_us)

\* C27: the LatencyMetrics of a finished burst over n >= 1 recorded latencies
\* has min_us and max_us the smallest and largest of them and, for p in
\* {50, 90, 95, 99}, the p-th percentile the element at index
\* round(p / 100 * (n - 1)) of the sample sorted ascending; a burst finished
\* with no latency recorded has every field 0.
C27_LatencyMetricsDefined ==
  [][(IsSome(metrics.current_burst) /\ metrics'.current_burst = None) =>
       /\ IsSome(mret')
       /\ LatencyAsSpecified(Unwrap(metrics.current_burst).latencies_us,
                             Unwrap(mret').latency)
       /\ metrics'.bursts[Len(metrics'.bursts)].latency = Unwrap(mret').latency
    ]_vars

\* A burst of two latencies finished: rounding puts the median at index 1,
\* the larger of the two, above the minimum.
C27_Witness ==
  /\ IsSome(mret)
  /\ Unwrap(mret).query_count = 2
  /\ Unwrap(mret).latency.min_us = 1
  /\ Unwrap(mret).latency.p50_us = 2
  /\ Unwrap(mret).latency.max_us = 2
  /\ metrics.current_burst = None

\* C34: after any sequence of start_burst, record_success, record_failure
\* and finish_burst, whenever no burst is active the run-wide latency
\* histogram holds as many samples as total_queries().
C34_HistogramCountsQueries ==
  metrics.current_burst = None => metrics.latency_histogram = total_queries(metrics)

\* ------------------------------------------------------------------------
\* Properties of MetricsHistory (HistorySpec)
\* ------------------------------------------------------------------------
Retained == {app.history.bursts[k].seq : k \in DOMAIN app.history.bursts}

\* C9 as amended: for every capacity the retained bursts never exceed it, and
\* for every capacity of at least 1, after capacity + 1 pushes the first
\* pushed entry is absent and the last pushed entry is present.
C9_HistoryBounded ==
  /\ Len(app.history.bursts) <= app.history.max_history
  /\ (app.history.max_history >= 1 /\ pushed = app.history.max_history + 1)
       => (1 \notin Retained /\ pushed \in Retained)

\* C9 as claimed, for every capacity including 0: the retained bursts never
\* exceed the capacity and after capacity + 1 pushes the first pushed entry is
\* absent and the last pushed entry is present.
C9_AsClaimed ==
  /\ Len(app.history.bursts) <= app.history.max_history
  /\ pushed = app.history.max_history + 1
       => (1 \notin Retained /\ pushed \in Retained)

\* A history of capacity 3 after its fourth push holds pushes 2, 3 and 4.
C9_Witness ==
  /\ app.history.max_history = 3
  /\ pushed = 4
  /\ [k \in DOMAIN app.history.bursts |-> app.history.bursts[k].seq] = <<2, 3, 4>>

\* The push numbers of the retained entries, in their order in the history.
RetainedSeqs(h) == [k \in DOMAIN h.bursts |-> h.bursts[k].seq]

\* C25: the history holds the most recently pushed bursts in push order. The
\* retained entries are the last Len pushes in order (a contiguous suffix of
\* the push sequence, as long as the capacity allows), a push keeps every
\* retained entry unchanged except the oldest, which is the only one it may
\* evict, and latest() is the last pushed entry whenever the history is
\* non-empty.
C25_PushOrderSuffix ==
  /\ [](LET n == Len(app.history.bursts)
        IN /\ n = min(pushed, app.history.max_history)
           /\ RetainedSeqs(app.history) = [k \in 1..n |-> pushed - n + k]
           /\ n > 0 => (/\ IsSome(latest(app.history))
                        /\ Unwrap(latest(app.history)).seq = pushed))
  /\ [](app.history.bursts = <<>> => latest(app.history) = None)
  /\ [][pushed' = pushed + 1 =>
          LET old == app.history.bursts
              new == app'.history.bursts
              gone == {k \in DOMAIN old : \A j \in DOMAIN new : new[j] # old[k]}
          IN /\ gone \subseteq {1}
             /\ \A j \in DOMAIN new :
                  new[j].seq = pushed' \/ \E k \in DOMAIN old : old[k] = new[j]
             /\ app.history.max_history >= 1 =>
                  (IsSome(latest(app'.history))
                     /\ Unwrap(latest(app'.history)).seq = pushed')
       ]_vars

\* A history of capacity 2 after its fourth push holds pushes 3 and 4, whose
\* BurstMetrics differ.
C25_Witness ==
  /\ app.history.max_history = 2
  /\ pushed = 4
  /\ RetainedSeqs(app.history) = <<3, 4>>
  /\ app.history.bursts[1].metrics # app.history.bursts[2].metrics

\* ------------------------------------------------------------------------
\* Properties of the App (AppSpec)
\* ------------------------------------------------------------------------
PauseTable(st) ==
  CASE st = "Running" -> "Paused"
    [] st = "Idle" -> "Paused"
    [] st = "Paused" -> "Idle"
    [] st = "Connecting" -> "Connecting"
    [] st = "Warming" -> "Warming"
    [] st = "Error" -> "Error"

\* C6: toggle_pause maps Running to Paused, Idle to Paused and Paused to
\* Idle and leaves Connecting, Warming and Error unchanged; two consecutive
\* toggles from Running end in Idle.
C6_TogglePause ==
  /\ \A k \in 1..(Len(streak) - 1) : streak[k + 1] = PauseTable(streak[k])
  /\ (Len(streak) = 3 /\ streak[1] = "Running") => streak[3] = "Idle"

\* Two consecutive toggles were made from Running.
C6_Witness == streak = <<"Running", "Paused", "Idle">>

\* The input holds nothing but spaces.
BlankInput(a) == \A i \in DOMAIN a.query_input : a.query_input[i] = " "

\* C39: submit_query on an empty or whitespace-only input leaves editing mode
\* without embedding or querying and keeps the cached sample and the offset.
\* On any other input, when there is no embedder, the embedding fails or comes
\* back empty, no runner is present or the backend query fails, it returns an
\* error and leaves the App (cached sample, scroll offset and editing flag
\* included) unchanged. Only a successful query replaces the sample; it
\* resets the offset and leaves editing mode. The backend is queried only
\* after a successful embedding with a runner present.
C39_SubmitQuery ==
  [][\A e \in {"ok", "err", "empty"} : \A ok \in BOOLEAN : \A n \in 0..MaxResults :
       ASubmitQuery(e, ok, n) =>
         LET r == Unwrap(opret')
             success == /\ ~BlankInput(app) /\ app.embedder /\ e = "ok"
                        /\ has_runner(app) /\ ok
         IN /\ BlankInput(app) =>
                 /\ r = [ret |-> "Ok", embedded |-> FALSE, queried |-> FALSE]
                 /\ ~app'.editing
                 /\ app'.last_sample = app.last_sample
                 /\ app'.results_scroll = app.results_scroll
            /\ (~BlankInput(app) /\ ~success) => (r.ret = "Err" /\ app' = app)
            /\ success =>
                 /\ r = [ret |-> "Ok", embedded |-> TRUE, queried |-> TRUE]
                 /\ app'.last_sample = Some([nresults |-> n])
                 /\ app'.results_scroll = 0
                 /\ ~app'.editing
            /\ app'.last_sample # app.last_sample => success
            /\ r.queried => (~BlankInput(app) /\ e = "ok" /\ has_runner(app))
            /\ r.embedded => (~BlankInput(app) /\ app.embedder)
    ]_vars

\* A submit_query whose backend query failed has returned an error: the App
\* is still editing, with its input, its cached sample and a scrolled offset.
C39_Witness ==
  /\ opret = Some([ret |-> "Err", embedded |-> TRUE, queried |-> TRUE])
  /\ app.editing
  /\ app.query_input = <<"a", " ">>
  /\ app.last_sample = Some([nresults |-> 2])
  /\ app.results_scroll = 1

\* ------------------------------------------------------------------------
\* Properties of the control loop (LoopSpec, FairLoopSpec)
\* ------------------------------------------------------------------------
Holders ==
  (IF has_runner(app) THEN 1 ELSE 0)
    + (IF TaskHoldsRunner THEN 1 ELSE 0)
    + (IF ChanHoldsRunner THEN 1 ELSE 0)

\* App::connect has stored a runner.
RunnerCreated == pc # "connect" /\ ~(pc = "exited" /\ disc.app = 0)

\* C3: the runner has one owner at every moment: the App, the burst task or
\* the completion message hold it one at a time, and it is with exactly one of
\* them until it is dropped; while a burst's receiver is held (from the
\* dispatch to the reception of its message) the App has no runner.
C3_SingleOwner ==
  /\ Holders <= 1
  /\ ~(has_runner(app) /\ TaskHoldsRunner)
  /\ burst_rx => ~has_runner(app)
  /\ pc = "quit_wait" => ~has_runner(app)
  /\ RunnerCreated => (Holders = 1) # dropped

\* The runner came back from a first burst and is out with a second one.
C3_Witness ==
  /\ dispatched >= 2
  /\ burst_rx
  /\ TaskHoldsRunner
  /\ ~has_runner(app)
  /\ pc = "input"

\* C4: a quit with a burst in flight ends the loop whether or not the burst
\* completes: a message received during the wait puts the runner back and the
\* provider's disconnect is called on it before the loop returns; when the
\* wait times out App::disconnect is still called and the loop returns; and
\* once waiting, the loop always goes on to return.
C4_QuitGrace ==
  /\ []((pc = "disconnect" /\ quit = "received") => has_runner(app))
  /\ []((pc = "exited" /\ quit = "received") => (disc.app = 1 /\ disc.provider = 1))
  /\ []((pc = "exited" /\ quit = "timeout") => disc.app = 1)
  /\ ((pc = "quit_wait") ~> (pc = "exited"))

\* The loop has returned after a wait that timed out, the burst still running.
C4_Witness ==
  /\ pc = "exited"
  /\ quit = "timeout"
  /\ task = "running"
  /\ disc.app = 1

\* C5: a burst that completes with an error, or whose channel closed, sets
\* the state to Error whatever it was (Paused too); from then on, until the
\* quit path disconnects, the state stays Error and no burst is dispatched.
C5_ErrorSticky ==
  [][/\ (pc = "poll" /\ burst_rx /\ chan \in {"sent_err", "tx_dropped"})
          => app'.state = "Error"
     /\ (app.state = "Error" /\ pc # "disconnect") => app'.state = "Error"
     /\ app.state = "Error" => (dispatched' = dispatched /\ task' # "running")
    ]_vars

\* After a failed burst gave the runner back, the loop stands at its spawn
\* check in state Error with the runner at hand.
C5_Witness ==
  /\ app.state = "Error"
  /\ has_runner(app)
  /\ dispatched = 1
  /\ pc = "spawn"
  /\ app.view = "Results"

\* C7: while the state is Paused no burst is dispatched, and a pause toggle
\* neither takes the runner out of the App nor disconnects it.
C7_PauseSuppresses ==
  [][/\ app.state = "Paused" => (dispatched' = dispatched /\ (burst_rx' => burst_rx)
                                  /\ (task' = "running" => task = "running"))
     /\ KeyPause => (app'.runner = app.runner /\ disc' = disc /\ dropped' = dropped)
    ]_vars

\* Paused with the runner at hand at the spawn check, after a first burst.
C7_Witness ==
  /\ app.state = "Paused"
  /\ has_runner(app)
  /\ ~burst_rx
  /\ dispatched = 1
  /\ pc = "spawn"
  /\ disc.provider = 0

\* The loop stands inside run_sample or submit_query, suspended on a backend
\* call (run_sample_query on a loaded query, run_custom_query) until the
\* backend answers.
AwaitsBackendCall ==
  \/ pc = "sample_call" /\ nqueries > 0
  \/ pc = "custom_call"

\* C16: the control loop never waits for a backend call to return: in every
\* reachable state, Tab, 'r' and Enter included, it goes on to its next
\* redraw and input poll without awaiting the backend.
C16_LoopNeverAwaitsBackend == ~AwaitsBackendCall

\* App::connect returned an error to tui::run.
ConnectFailed == exit = "err" /\ disc.app = 0

\* C17: a connect (or warmup) failure in interactive mode leaves AppState
\* equal to Error and the loop running, so that the operator can quit.
C17_ConnectFailureShowsError ==
  ConnectFailed => (app.state = "Error" /\ pc # "exited")

\* The largest scroll offset the cached sample allows.
ScrollMax(a) ==
  IF IsSome(a.last_sample) /\ Unwrap(a.last_sample).nresults >= 1
  THEN Unwrap(a.last_sample).nresults - 1
  ELSE 0

\* C21: after every sequence of scroll_results, run_sample and submit_query
\* the scroll offset lies in [0, result_count - 1] of the cached sample (it is
\* 0 without a sample or without results), and every run_sample or
\* submit_query that stores a sample sets the offset to 0.
C21_ScrollWithinSample ==
  /\ [](0 <= app.results_scroll /\ app.results_scroll <= ScrollMax(app))
  /\ [][\A n \in 0..MaxResults :
          (SampleReturn(TRUE, n) \/ CustomReturn(TRUE, n))
            => (app'.results_scroll = 0 /\ app'.last_sample = Some([nresults |-> n]))
       ]_vars
  /\ [][app'.last_sample # app.last_sample => app'.results_scroll = 0]_vars

\* The operator scrolled to the last result of a sample, then a custom query
\* is awaited that will replace the sample.
C21_Witness ==
  /\ IsSome(app.last_sample)
  /\ Unwrap(app.last_sample).nresults = 2
  /\ app.results_scroll = 1
  /\ pc = "custom_call"

\* The channel holds a completion message not yet received.
MessagePending == chan \in {"sent_ok", "sent_err"}

\* C23: at most one burst is in flight. A burst is dispatched only by the
\* spawn check of a pass, with no completion signal pending, the state neither
\* Paused nor Error, the runner in the App, no earlier task still running and
\* the interval elapsed. A dispatched burst's task sends at most one
\* completion message (it ends with the send), and a message is consumed at
\* most once: its reception empties the channel, which stays empty until the
\* next dispatch.
C23_OneBurstInFlight ==
  /\ [](burst_rx => (~has_runner(app) /\ chan # "none"))
  /\ [][dispatched' # dispatched =>
          /\ Spawn(TRUE)
          /\ ~burst_rx
          /\ app.state \notin {"Paused", "Error"}
          /\ has_runner(app)
          /\ task # "running"
          /\ ~MessagePending
          /\ dispatched' = dispatched + 1
          /\ task' = "running"
          /\ burst_rx'
       ]_vars
  /\ [][(task' = "running" /\ task # "running") => dispatched' = dispatched + 1]_vars
  /\ [][(MessagePending' /\ ~MessagePending) =>
          /\ chan = "open"
          /\ task = "running"
          /\ task' = "done"
          /\ dispatched' = dispatched
       ]_vars
  /\ [][(MessagePending /\ chan' # chan) =>
          /\ chan' = "none"
          /\ has_runner(app')
          /\ ~burst_rx'
          /\ Poll \/ QuitRecv
       ]_vars
  /\ [][(chan = "none" /\ chan' # "none") =>
          (chan' = "open" /\ dispatched' = dispatched + 1)]_vars

\* The second burst's completion message waits for the next poll.
C23_Witness ==
  /\ dispatched = 2
  /\ chan = "sent_ok"
  /\ burst_rx
  /\ task = "done"
  /\ pc = "poll"

\* What the claim says of the step that receives a successful burst: its
\* BurstMetrics is appended once to the history, the runner is back in the
\* App, and the state is Idle, or Paused when it was Paused.
SuccessMerged ==
  /\ app'.history.bursts = Append(app.history.bursts, Entry(dispatched, LoopBurst))
  /\ ~has_runner(app)
  /\ has_runner(app')
  /\ app'.state = IF app.state = "Paused" THEN "Paused" ELSE "Idle"

\* C24 as claimed: whenever the completion message of a successful burst is
\* received, SuccessMerged holds of that step.
C24_AsClaimed ==
  [][(chan = "sent_ok" /\ chan' # "sent_ok") => SuccessMerged]_vars

\* C24 as amended: a successful completion message received by the poll of a
\* pass is merged as claimed; a burst's metrics enter the history in such a
\* step only, so once per burst (the entries' dispatch numbers strictly
\* increase); a successful message received while the loop waits on the quit
\* path gives the runner back and leaves history and state as they were.
C24_SuccessMerged ==
  /\ [][(pc = "poll" /\ burst_rx /\ chan = "sent_ok")
          => (SuccessMerged /\ chan' = "none" /\ ~burst_rx')]_vars
  /\ [][app'.history # app.history
          => (pc = "poll" /\ burst_rx /\ chan = "sent_ok")]_vars
  /\ [](\A i, j \in DOMAIN app.history.bursts :
          i < j => app.history.bursts[i].seq < app.history.bursts[j].seq)
  /\ [][(pc = "quit_wait" /\ chan = "sent_ok" /\ chan' # "sent_ok")
          => /\ has_runner(app')
             /\ app'.history = app.history
             /\ app'.state = app.state]_vars

\* The second burst's success was received while Paused: two entries in the
\* history, the runner back, the state still Paused.
C24_Witness ==
  /\ Len(app.history.bursts) = 2
  /\ app.history.bursts[2].seq = 2
  /\ app.state = "Paused"
  /\ has_runner(app)
  /\ ~burst_rx
  /\ pc = "input"

\* C31 as claimed: a Tab that shows the Results view while no sample is
\* cached starts a sample query in every state of the loop, a burst in flight
\* included; any other Tab starts none.
C31_AsClaimed ==
  [][KeyTab =>
       ((pc' = "sample_call") <=> (app.view = "Dashboard" /\ app.last_sample = None))
    ]_vars

\* C31 as amended: a Tab starts run_sample exactly when it shows the Results
\* view, no sample is cached and the App holds the runner; with a burst in
\* flight the runner is out and the Tab starts none. The run_sample started
\* is a single one: the loop leaves it for the spawn check, and nothing but
\* the toggle of the view is changed by the Tab itself.
C31_ToggleSamplesOnce ==
  /\ [][KeyTab =>
          /\ (pc' = "sample_call") <=>
               (app.view = "Dashboard" /\ app.last_sample = None /\ has_runner(app))
          /\ pc' \in {"sample_call", "spawn"}
          /\ app'.view # app.view
          /\ app'.last_sample = app.last_sample
       ]_vars
  /\ [][(KeyTab /\ burst_rx) => pc' = "spawn"]_vars
  /\ [][(pc = "sample_call" /\ pc' # pc) =>
          (pc' = "spawn" /\ \E ok \in BOOLEAN : \E n \in 0..MaxResults : SampleReturn(ok, n))
       ]_vars

\* After a first burst gave the runner back, a Tab showed the Results view
\* without a cached sample and the loop awaits run_sample.
C31_Witness ==
  /\ pc = "sample_call"
  /\ app.view = "Results"
  /\ app.last_sample = None
  /\ has_runner(app)
  /\ dispatched = 1
  /\ nqueries > 0

\* The loop is on its quit path: the quit key was pressed.
Quitting == pc \in {"quit_wait", "disconnect", "exited"}

\* C32: on quit the metrics of a burst still in flight are never merged into
\* the history: the quit key, the wait for the completion (received, closed
\* or timed out), the disconnect and every later step of the burst task leave
\* the history as it was.
C32_QuitKeepsHistory ==
  [][(Quitting \/ Quitting') => app'.history = app.history]_vars

\* The loop has returned after a quit during the second burst, whose
\* successful completion arrived within the grace period: the history holds
\* the first burst only.
C32_Witness ==
  /\ pc = "exited"
  /\ quit = "received"
  /\ dispatched = 2
  /\ nqueries > 0
  /\ task = "done"
  /\ Len(app.history.bursts) = 1

\* C35 as claimed: whenever a burst is in flight (its receiver is held: it
\* was dispatched and its completion not yet observed) the state is Running
\* or Paused, and whenever the loop runs with no burst in flight the state is
\* not Running.
C35_AsClaimed ==
  /\ burst_rx => app.state \in {"Running", "Paused"}
  /\ (~burst_rx /\ ~Quitting) => app.state # "Running"

\* C35 as amended: a dispatch sets the state to Running; while the burst is
\* in flight the state is Running, Paused or (after a second pause toggle)
\* Idle, and only a pause toggle changes it; whenever the loop runs with no
\* burst in flight the state is not Running.
C35_StateTracksBurst ==
  /\ [](burst_rx => app.state \in {"Running", "Paused", "Idle"})
  /\ []((~burst_rx /\ ~Quitting) => app.state # "Running")
  /\ [][dispatched' # dispatched => app'.state = "Running"]_vars
  /\ [][(burst_rx /\ burst_rx' /\ app'.state # app.state) =>
          (KeyPause /\ app'.state = toggle_pause(app).state /\ app'.state # "Running")]_vars

\* Two pause toggles during the second burst: the burst is still in flight
\* and the state is Idle.
C35_Witness ==
  /\ burst_rx
  /\ task = "running"
  /\ dispatched = 2
  /\ app.state = "Idle"

\* The loop is in its passes: past connect and warmup, the quit key not
\* pressed.
InPasses == pc \notin {"connect", "warmup"} /\ ~Quitting

\* C36: liveness of the hand-off. Once the task of a dispatched burst has sent
\* its completion, the loop reclaims the runner unless the operator quits
\* first; and with the runner back, no burst in flight and the state neither
\* Paused nor Error, another burst is dispatched, unless the operator pauses
\* or quits first.
C36_HandOffLive ==
  /\ (burst_rx /\ MessagePending) ~> (has_runner(app) \/ Quitting)
  /\ (/\ InPasses
      /\ has_runner(app)
      /\ ~burst_rx
      /\ app.state \notin {"Paused", "Error"}
      /\ dispatched >= 1
      /\ dispatched < MaxBursts)
       ~> (burst_rx \/ Quitting \/ app.state \in {"Paused", "Error"})

\* The first burst's runner was reclaimed and its metrics pushed, and the
\* second burst is out, dispatched from an undisturbed Idle state.
C36_Witness ==
  /\ dispatched = 2
  /\ burst_rx
  /\ task = "running"
  /\ app.state = "Running"
  /\ Len(app.history.bursts) = 1
  /\ pc = "poll"

\* C37: on quit the provider's disconnect is called exactly when the App
\* holds the runner at that moment. After a grace period that expired, or a
\* burst task that ended without sending the runner back (seen by the wait or
\* by an earlier poll), the loop returns without a call of the provider's
\* disconnect; the provider's disconnect is called at most once and never
\* while a background task holds the runner.
C37_DisconnectOnlyOwned ==
  /\ [][(pc = "disconnect" /\ pc' = "exited") =>
          /\ disc'.app = disc.app + 1
          /\ disc'.provider = disc.provider + (IF has_runner(app) THEN 1 ELSE 0)
          /\ has_runner(app) => ~TaskHoldsRunner
       ]_vars
  /\ [][disc' # disc => (pc = "disconnect" /\ pc' = "exited")]_vars
  /\ []((pc = "exited" /\ quit \in {"timeout", "closed"}) => disc.provider = 0)
  /\ []((pc = "disconnect" /\ app.state = "Error" /\ dropped) => ~has_runner(app))
  /\ [](disc.provider <= 1)
  /\ [](disc.provider = 1 => (pc = "exited" /\ ~TaskHoldsRunner))

\* The loop has returned after the grace period of a quit during the second
\* burst expired: App::disconnect was called, the provider's was not.
C37_Witness ==
  /\ pc = "exited"
  /\ quit = "timeout"
  /\ dispatched = 2
  /\ disc = [app |-> 1, provider |-> 0]
  /\ exit = "ok"

\* ------------------------------------------------------------------------
\* Properties of recall_at_k (RecallSpec)
\* ------------------------------------------------------------------------
RecallReturned == IsSome(recall_ret)

\* The quotient is a number of the interval [0, 1] / is 0.0 / is 1.0.
InUnitInterval(q) == q.den > 0 /\ 0 <= q.num /\ q.num <= q.den
IsZero(q) == q.den > 0 /\ q.num = 0
IsOne(q) == q.den > 0 /\ q.num = q.den

\* The first n ids of a list.
FirstIds(s, n) == {s[i] : i \in 1..min(n, Len(s))}

\* C11: recall_at_k returns a value of [0, 1] for all inputs, k = 0 and
\* repeated ids included, and 0.0 whenever expected is empty.
C11_RecallInUnitInterval ==
  RecallReturned =>
    /\ InUnitInterval(Unwrap(recall_ret))
    /\ expected = <<>> => IsZero(Unwrap(recall_ret))

\* C12: recall_at_k is 1.0 whenever every expected id (up to k) is among the
\* first k returned ids; on the unit test's lists it is 1.0 for k = 5 and 2/3
\* for k = 3.
C12_RecallOneWhenAllFound ==
  RecallReturned =>
    /\ (/\ expected # <<>>
        /\ at_k >= 1
        /\ FirstIds(expected, at_k) \subseteq FirstIds(returned, at_k))
         => IsOne(Unwrap(recall_ret))
    /\ (returned = TestReturned /\ expected = TestExpected /\ at_k = 5)
         => IsOne(Unwrap(recall_ret))
    /\ (returned = TestReturned /\ expected = TestExpected /\ at_k = 3)
         => Unwrap(recall_ret) = Quotient(2, 3)

\* A list with the ids of its first n places rearranged by perm.
ReorderWindow(s, n, perm) == [i \in DOMAIN s |-> IF i <= n THEN s[perm[i]] ELSE s[i]]

\* C28: recall_at_k is exact set-overlap recall. With k clamped to the number
\* of expected ids (and the quotient defined: expected non-empty, k >= 1), the
\* result is the size of the intersection of the set of the first k expected
\* ids and the set of the first k returned ids, divided by k, and it is the
\* same after any reordering of the ids inside either top-k window.
C28_RecallIsSetOverlap ==
  (RecallReturned /\ expected # <<>> /\ at_k >= 1) =>
    LET kc == min(at_k, Len(expected))
        kr == min(kc, Len(returned))
    IN /\ Unwrap(recall_ret) =
            Quotient(Cardinality(FirstIds(expected, kc) \cap FirstIds(returned, kc)), kc)
       /\ \A perm \in Permutations(1..kr) :
            recall_at_k(ReorderWindow(returned, kr, perm), expected, at_k)
              = Unwrap(recall_ret)
       /\ \A perm \in Permutations(1..kc) :
            recall_at_k(returned, ReorderWindow(expected, kc, perm), at_k)
              = Unwrap(recall_ret)

\* ------------------------------------------------------------------------
\* Properties of warmup, run_sample_query and run_custom_query (QuerySpec)
\* ------------------------------------------------------------------------
OpDone == op.st = "done"

\* The engine and the burst's outputs are left alone by a step.
EngineUntouched ==
  /\ metrics' = metrics
  /\ ret' = ret
  /\ mret' = mret
  /\ results' = results

\* C13: with at least one query loaded, warmup issues exactly
\* warmup_iterations backend calls, never two in flight, the i-th (from 0)
\* on query index i mod query_count, and no step of it changes the Metrics
\* engine: no burst started, no latency recorded, no BurstMetrics produced.
C13_WarmupCalls ==
  /\ []((op.name = "warmup" /\ nqueries > 0) =>
          /\ op.inflight <= 1
          /\ Len(calls) <= warmup_iterations
          /\ \A j \in DOMAIN calls : calls[j].query = (j - 1) % nqueries
          /\ OpDone => (Len(calls) = warmup_iterations /\ op.inflight = 0
                          /\ opret = Some("Ok")))
  /\ [][op'.name = "warmup" => EngineUntouched]_vars

\* A warmup of three iterations over two queries has returned on a runner
\* whose engine holds a finished burst.
C13_Witness ==
  /\ op.name = "warmup"
  /\ OpDone
  /\ nqueries = 2
  /\ warmup_iterations = 3
  /\ [j \in DOMAIN calls |-> calls[j].query] = <<0, 1, 0>>
  /\ Len(metrics.bursts) = 1

\* C20 as amended: run_custom_query, and run_sample_query with at least one
\* query loaded, issue exactly one backend call, with include_payload set,
\* whether the call succeeds or fails; run_sample_query without queries
\* returns a Config error and issues no call; none of their steps changes
\* the Metrics engine.
C20_SingleQueryCall ==
  /\ []((op.name \in {"sample", "custom"} /\ OpDone) =>
          IF op.name = "sample" /\ nqueries = 0
          THEN calls = <<>> /\ opret = Some("Config")
          ELSE /\ Len(calls) = 1
               /\ calls[1].include_payload
               /\ op.name = "sample" => calls[1].query = 0)
  /\ []((op.name \in {"sample", "custom"}) => Len(calls) <= 1)
  /\ [][op'.name \in {"sample", "custom"} => EngineUntouched]_vars

\* C20 as claimed: once run_sample_query or run_custom_query has returned,
\* exactly one backend call was issued and it had include_payload set.
C20_AsClaimed ==
  (op.name \in {"sample", "custom"} /\ OpDone) =>
    (Len(calls) = 1 /\ calls[1].include_payload)

\* A sample query whose one call failed has returned on a runner whose
\* engine holds a finished burst.
C20_Witness ==
  /\ op.name = "sample"
  /\ OpDone
  /\ opret = Some("QueryExecution")
  /\ calls = <<BackendCall(0, TRUE)>>
  /\ Len(metrics.bursts) = 1

\* Every backend call of this runner fails: hybrid mode on a provider without
\* hybrid_search.
EveryCallFails == config.mode = "Hybrid" /\ ~provider.hybrid_impl

\* C30: a failure during warmup propagates: a warmup whose backend calls
\* failed does not return Ok to its caller.
C30_WarmupFailurePropagates ==
  (op.name = "warmup" /\ OpDone /\ Len(calls) >= 1 /\ EveryCallFails)
    => (IsSome(opret) /\ Unwrap(opret) # "Ok")

\* ------------------------------------------------------------------------
\* Properties of main, run_headless and run_tui (MainSpec)
\* ------------------------------------------------------------------------
ConnectInvoked == \E j \in DOMAIN events : events[j].what = "connect"

\* C18: in both modes the provider's connect is invoked only if the queries
\* file exists, was loaded with at least one query and was embedded with
\* success; a missing or empty queries file ends the run with an error and
\* without any connection attempt.
C18_ConnectOnlyAfterQueries ==
  /\ (ConnectInvoked \/ mpc \in {"connect", "tui_init", "tui_run"}) =>
       (qfile.exists /\ qfile.parses /\ qfile.n >= 1 /\ embedded)
  /\ (mpc = "exited" /\ (~qfile.exists \/ qfile.n = 0)) =>
       (status = "err" /\ ~ConnectInvoked)

\* The interactive mode has called connect after the two queries of the
\* file were loaded and embedded.
C18_Witness ==
  /\ ~cli.headless
  /\ ConnectInvoked
  /\ qfile.n = 2
  /\ nqueries = 2
  /\ mpc = "exited"

\* What a complete headless run of n bursts logs.
HeadlessLog(c, n) ==
  <<Event("connect", 0), Event("warmup", 0)>>
    \o (IF c.output = "Csv" THEN <<Event("csv_header", 0)>> ELSE <<>>)
    \o [j \in 1..(2 * n) |-> IF j % 2 = 1 THEN Event("burst", (j + 1) \div 2)
                             ELSE DataLine(c, j \div 2)]
    \o <<Event("disconnect", 0)>>

\* C19: a headless run with bursts = N > 0 that ends without error has
\* performed connect, warmup, exactly N bursts and disconnect, in this order;
\* with output = csv it printed one header line, before the first burst, and
\* after each burst that burst's data line, N in all.
C19_HeadlessSequence ==
  (cli.headless /\ cli.bursts > 0 /\ status = "ok") =>
    (done = cli.bursts /\ events = HeadlessLog(cli, cli.bursts))

\* A headless CSV run of two bursts has ended without error.
C19_Witness ==
  /\ cli.headless
  /\ cli.bursts = 2
  /\ cli.output = "Csv"
  /\ status = "ok"
  /\ Len(events) = 8

====
